---- MODULE Spec2Model ----
(***************************************************************************)
(* NIL reconciliation pipeline: the name canonicalizer and money parser of *)
(* nil_institution_extract.py, the athlete deduplication of                *)
(* dedupe_nil_deals.py, the institution build of                           *)
(* nil_institution_extract.py, the KPIs, rankings and school summary of    *)
(* dashboard.py, the directory download and the join validation of etl.py, *)
(* and the page-by-page extraction of nils_extract_deals.py.               *)
(*                                                                         *)
(* Each script is a straight-line batch program; it is modelled as its own *)
(* specification (SpecClean, SpecMoney, SpecDedupe, SpecDash, SpecInst,    *)
(* SpecEtl, SpecExtract) over the shared variables, the variables of the   *)
(* other scripts idle.  SpecRerun runs a stage a second time on the same   *)
(* inputs.                                                                 *)
(*                                                                         *)
(* Text that the code inspects character by character is a sequence of     *)
(* one-character strings; identifiers that are only compared are strings.  *)
(***************************************************************************)
EXTENDS Integers, Sequences, FiniteSets, TLC

VARIABLES
    \* clean_name(s) applied once and twice
    clean_arg, clean_res, clean_res2, pcClean,
    \* parse_money(v) and its result
    money_arg, money_res, pcMoney,
    \* dedupe_nil_deals.py: the raw deals file, the aggregate, the saved table
    df, athlete_fact, final_df, pcDedupe,
    \* dashboard.py, school summary: the athlete file, the two filter
    \* widgets, and what one run of the script computes
    df_dedupe, selected_school, selected_sports, filtered_dedupe,
    school_money, school_table, branch,
    \* dashboard.py, raw deals: the deals file as loaded, the year slider,
    \* the filtered view, the disclosed-value KPI and the volume rankings
    df_deals, year_range, filtered_df, share_reported,
    school_summary, brand_volume, athlete_volume,
    \* nil_institution_extract.py: the two input files (their columns and
    \* rows), the scorer's answers, and what the script computes
    nil_columns, nil, ipeds_columns, ipeds, wratio,
    mapping, mapping_df, inst_nil, pcInst,
    \* the names handed to the scorer, the exception that ended the run, the
    \* number of the run, and what the first run resolved
    match_calls, failure, run, first_resolved,
    \* etl.py, join validation: the processed files that exist and their
    \* rows, what the validator printed, and the exception that ended it
    processed, ipeds_csv, eada_csv, fcc_csv, join_log, etl_failure, pcEtl,
    \* etl.py, download_ipeds_directory: the cached raw file, what the API
    \* answers, the exception that ended the call, and the number of the call
    raw_ipeds, urban_api, download_failure, pcDownload,
    \* nils_extract_deals.py: what the API answers for each page, the requests,
    \* delays and warnings so far, pageCount, the loop's page, the rows
    \* collected, the deals file, and the exception that ended the run
    on3_api, events, page_count, page, all_rows, deals_csv, extract_failure,
    pcExtract

cleanVars == <<clean_arg, clean_res, clean_res2, pcClean>>
moneyVars == <<money_arg, money_res, pcMoney>>
dedupeVars == <<df, athlete_fact, final_df, pcDedupe>>
dashVars == <<df_dedupe, selected_school, selected_sports, filtered_dedupe,
              school_money, school_table, branch,
              df_deals, year_range, filtered_df, share_reported,
              school_summary, brand_volume, athlete_volume>>
instVars == <<nil_columns, nil, ipeds_columns, ipeds, wratio,
              mapping, mapping_df, inst_nil, pcInst,
              match_calls, failure, run, first_resolved>>
etlVars == <<processed, ipeds_csv, eada_csv, fcc_csv, join_log, etl_failure,
             pcEtl, raw_ipeds, urban_api, download_failure, pcDownload>>
extractVars == <<on3_api, events, page_count, page, all_rows, deals_csv,
                 extract_failure, pcExtract>>
vars == <<cleanVars, moneyVars, dedupeVars, dashVars, instVars, etlVars,
          extractVars>>

\* A missing value (None / NaN) in an identifier column, and in a column of
\* texts (a sequence that is no text: its one element is no character).
NULL == "<NA>"
NullText == <<NULL>>

(***************************************************************************)
(* Scalars of a data column: a missing value, a number, or a text.  A      *)
(* number is the exact decimal n / d (d a power of ten), or one of the     *)
(* floats nan, inf, -inf (n is the sign).  "fail" is a ValueError.         *)
(***************************************************************************)
Val(kind, n, d, t) == [kind |-> kind, n |-> n, d |-> d, s |-> t]
Null      == Val("null", 0, 1, <<>>)
Num(n, d) == Val("num", n, d, <<>>)
Int2Num(n) == Num(n, 1)
Text(t)   == Val("text", 0, 1, t)
NaN       == Val("nan", 0, 1, <<>>)
Inf(sign) == Val("inf", sign, 1, <<>>)
Fail      == Val("fail", 0, 1, <<>>)

(***************************************************************************)
(* The variables of a script that a specification does not run             *)
(***************************************************************************)
EmptyMap == [t \in {} |-> 0]

IdleClean ==
    /\ clean_arg = NullText /\ clean_res = <<>> /\ clean_res2 = <<>>
    /\ pcClean = "idle"

IdleMoney == money_arg = Null /\ money_res = Null /\ pcMoney = "idle"

IdleDedupe ==
    /\ df = <<>> /\ athlete_fact = <<>> /\ final_df = <<>>
    /\ pcDedupe = "idle"

IdleDash ==
    /\ df_dedupe = <<>> /\ selected_school = {} /\ selected_sports = {}
    /\ filtered_dedupe = <<>> /\ school_money = <<>> /\ school_table = <<>>
    /\ branch = "idle"
    /\ df_deals = <<>> /\ year_range = <<2022, 2025>> /\ filtered_df = <<>>
    /\ share_reported = Int2Num(0)
    /\ school_summary = <<>> /\ brand_volume = <<>> /\ athlete_volume = <<>>

\* an exception: its type, its message (the fixed part) and the names the
\* message lists
Exception(kind, message, names) ==
    [kind |-> kind, message |-> message, names |-> names]
NoFailure == Exception("none", "", {})

IdleInst ==
    /\ nil_columns = {} /\ nil = <<>> /\ ipeds_columns = {} /\ ipeds = <<>>
    /\ wratio = <<>> /\ mapping = EmptyMap /\ mapping_df = <<>> /\ inst_nil = <<>>
    /\ pcInst = "idle"
    /\ match_calls = <<>> /\ failure = NoFailure /\ run = 0
    /\ first_resolved = {}

\* a file of the raw directory: it exists or not, and its rows
File(rows) == [exists |-> TRUE, rows |-> rows]
NoFile == [exists |-> FALSE, rows |-> <<>>]

IdleJoin ==
    /\ processed = {} /\ ipeds_csv = <<>> /\ eada_csv = <<>> /\ fcc_csv = <<>>
    /\ join_log = <<>> /\ etl_failure = NoFailure /\ pcEtl = "idle"

IdleDownload ==
    /\ raw_ipeds = NoFile /\ urban_api = <<>> /\ download_failure = NoFailure
    /\ pcDownload = "idle"

IdleEtl == IdleJoin /\ IdleDownload

IdleExtract ==
    /\ on3_api = <<>> /\ events = <<>> /\ page_count = 0 /\ page = 0
    /\ all_rows = <<>> /\ deals_csv = NoFile /\ extract_failure = NoFailure
    /\ pcExtract = "idle"

(***************************************************************************)
(* Characters                                                              *)
(***************************************************************************)
Lowers == <<"a","b","c","d","e","f","g","h","i","j","k","l","m",
            "n","o","p","q","r","s","t","u","v","w","x","y","z">>
Uppers == <<"A","B","C","D","E","F","G","H","I","J","K","L","M",
            "N","O","P","Q","R","S","T","U","V","W","X","Y","Z">>
LowerLetters == {Lowers[i] : i \in 1..Len(Lowers)}
UpperLetters == {Uppers[i] : i \in 1..Len(Uppers)}
Digits == {"0","1","2","3","4","5","6","7","8","9"}
Whitespace == {" ", "\t", "\n"}

\* str.lower() on one character
ToLower(c) ==
    IF c \in UpperLetters
    THEN Lowers[CHOOSE i \in 1..Len(Uppers) : Uppers[i] = c]
    ELSE c

\* str.lower()
Lower(s) == [i \in 1..Len(s) |-> ToLower(s[i])]

\* the regex class \w : letters, digits and the underscore
IsWordChar(c) == c \in LowerLetters \cup UpperLetters \cup Digits \cup {"_"}

SetMin(S) == CHOOSE x \in S : \A y \in S : x <= y
SetMax(S) == CHOOSE x \in S : \A y \in S : x >= y

\* str.strip(): leading and trailing whitespace removed
Strip(s) ==
    LET keep == {i \in 1..Len(s) : s[i] \notin Whitespace}
    IN  IF keep = {} THEN <<>> ELSE SubSeq(s, SetMin(keep), SetMax(keep))

(***************************************************************************)
(* re.sub for the patterns of clean_name: an alternation of literals, each *)
(* between two \b.  Every literal begins and ends with a word character,   *)
(* so \b holds exactly where the neighbour is no word character (or the    *)
(* string ends).  Matches are found left to right on the original string.  *)
(***************************************************************************)
MatchesAt(s, i, w) ==
    /\ i + Len(w) - 1 <= Len(s)
    /\ SubSeq(s, i, i + Len(w) - 1) = w
    /\ (i = 1 \/ ~IsWordChar(s[i - 1]))
    /\ (i + Len(w) > Len(s) \/ ~IsWordChar(s[i + Len(w)]))

RECURSIVE ReSubFrom(_, _, _, _)
ReSubFrom(alts, repl, s, i) ==
    IF i > Len(s) THEN <<>>
    ELSE LET hits == {k \in 1..Len(alts) : MatchesAt(s, i, alts[k])}
         IN  IF hits = {}
             THEN <<s[i]>> \o ReSubFrom(alts, repl, s, i + 1)
             ELSE repl \o ReSubFrom(alts, repl, s, i + Len(alts[SetMin(hits)]))

ReSubWords(alts, repl, s) == ReSubFrom(alts, repl, s, 1)

\* re.sub(r"[^a-z0-9 ]", " ", s)
StripNonAlnum(s) ==
    [i \in 1..Len(s) |->
        IF s[i] \in LowerLetters \cup Digits \cup {" "} THEN s[i] ELSE " "]

\* re.sub(r"\s+", " ", s)
RECURSIVE CollapseFrom(_, _)
CollapseFrom(s, i) ==
    IF i > Len(s) THEN <<>>
    ELSE IF s[i] \in Whitespace
         THEN IF i > 1 /\ s[i - 1] \in Whitespace
              THEN CollapseFrom(s, i + 1)
              ELSE <<" ">> \o CollapseFrom(s, i + 1)
         ELSE <<s[i]>> \o CollapseFrom(s, i + 1)

CollapseSpaces(s) == CollapseFrom(s, 1)

W_university == <<"u","n","i","v","e","r","s","i","t","y">>
W_college    == <<"c","o","l","l","e","g","e">>
W_the        == <<"t","h","e">>
W_men        == <<"m","e","n">>
W_women      == <<"w","o","m","e","n">>
W_fb         == <<"f","b">>
W_ncaa       == <<"n","c","a","a">>
W_football   == <<"f","o","o","t","b","a","l","l">>
W_state      == <<"s","t","a","t","e">>
W_state_university == W_state \o <<" ">> \o W_university

\* the seven substitutions of clean_name, in the order of the source
RemoveNoise(s) ==
    LET s1 == ReSubWords(<<W_university>>, <<>>, s)
        s2 == ReSubWords(<<W_college>>, <<>>, s1)
        s3 == ReSubWords(<<W_the>>, <<>>, s2)
        s4 == ReSubWords(<<W_men, W_women>>, <<>>, s3)
        s5 == ReSubWords(<<W_fb, W_ncaa>>, <<>>, s4)
        s6 == ReSubWords(<<W_football>>, <<>>, s5)
    IN  ReSubWords(<<W_state_university>>, W_state, s6)

\* clean_name(s): s is NullText (pd.isna) or a text
clean_name(s) ==
    IF s = NullText THEN <<>>
    ELSE Strip(CollapseSpaces(StripNonAlnum(RemoveNoise(Lower(s)))))

(***************************************************************************)
(* Bounded texts                                                           *)
(***************************************************************************)
TextsUpTo(alphabet, n) == UNION {[1..k -> alphabet] : k \in 0..n}

MaxNameLen == 4
NameAlphabet == {"f", "b", "F", "_", " ", "-"}

T_the_u            == <<"t","h","e","_">>
T_The              == <<"T","h","e">>
T_texas            == <<"T","e","x","a","s">>
T_texas_longhorns_football ==
    <<"T","e","x","a","s"," ","L","o","n","g","h","o","r","n","s"," ",
      "F","o","o","t","b","a","l","l">>
T_ohio_state_university ==
    <<"T","h","e"," ","O","h","i","o"," ","S","t","a","t","e"," ",
      "U","n","i","v","e","r","s","i","t","y">>
T_state_u_university == W_state \o <<"_">> \o W_university
T_womens == <<"W","o","m","e","n","'","s"," ","N","C","A","A">>

SampleNames == {T_the_u, T_The, T_texas, T_texas_longhorns_football,
                T_ohio_state_university, T_state_u_university, T_womens}

NameInputs == {NullText} \cup TextsUpTo(NameAlphabet, MaxNameLen) \cup SampleNames

(***************************************************************************)
(* SpecClean: the canonicalizer applied to an input and to its own output  *)
(***************************************************************************)
InitClean ==
    /\ clean_arg \in NameInputs
    /\ clean_res = <<>>
    /\ clean_res2 = <<>>
    /\ pcClean = "start"
    /\ IdleMoney /\ IdleDedupe /\ IdleDash /\ IdleInst /\ IdleEtl
    /\ IdleExtract

CleanOnce ==
    /\ pcClean = "start"
    /\ clean_res' = clean_name(clean_arg)
    /\ pcClean' = "once"
    /\ UNCHANGED <<clean_arg, clean_res2, moneyVars, dedupeVars, dashVars, instVars, etlVars, extractVars>>

CleanTwice ==
    /\ pcClean = "once"
    /\ clean_res2' = clean_name(clean_res)
    /\ pcClean' = "twice"
    /\ UNCHANGED <<clean_arg, clean_res, moneyVars, dedupeVars, dashVars, instVars, etlVars, extractVars>>

NextClean == CleanOnce \/ CleanTwice

SpecClean == InitClean /\ [][NextClean]_vars

\* C8: name cleaning is idempotent: the canonicalizer applied to its own
\* output returns that output, clean_name(clean_name(x)) = clean_name(x),
\* for every input x.
C8_CleanIdempotent == pcClean = "twice" => clean_res2 = clean_res

\* the maximal runs of non-space characters of s
Tokens(s) ==
    {t \in {SubSeq(s, i, j) : i \in 1..Len(s), j \in 1..Len(s)} :
        /\ t # <<>>
        /\ \A k \in 1..Len(t) : t[k] # " "
        /\ \E i \in 1..Len(s) :
            /\ i + Len(t) - 1 <= Len(s)
            /\ SubSeq(s, i, i + Len(t) - 1) = t
            /\ (i = 1 \/ s[i - 1] = " ")
            /\ (i + Len(t) > Len(s) \/ s[i + Len(t)] = " ")}

NoiseWords == {W_university, W_college, W_the, W_men, W_women, W_fb,
               W_ncaa, W_football}

Canonical(s) ==
    /\ \A i \in 1..Len(s) : s[i] \in LowerLetters \cup Digits \cup {" "}
    /\ s = <<>> \/ (s[1] # " " /\ s[Len(s)] # " ")
    /\ \A i \in 1..(Len(s) - 1) : ~(s[i] = " " /\ s[i + 1] = " ")
    /\ Tokens(s) \cap NoiseWords = {}

\* C9: for every input the canonicalizer's output is lowercase, trimmed,
\* made of single-space-separated tokens over [a-z0-9], and none of the noise
\* words (university, college, the, men, women, fb, ncaa, football) is a
\* whole token of it (so "state university" can only appear as "state").
C9_CanonicalOutput == pcClean # "start" => Canonical(clean_res)

\* a * k for a float a and a positive integer k
Times(a, k) == IF a.kind = "num" THEN Num(a.n * k, a.d) ELSE a

DigitSeq == <<"0","1","2","3","4","5","6","7","8","9">>
DigitVal(c) == (CHOOSE i \in 1..10 : DigitSeq[i] = c) - 1

RECURSIVE Pow10(_)
Pow10(k) == IF k = 0 THEN 1 ELSE 10 * Pow10(k - 1)

\* the characters of s that are in set C, in order
RECURSIVE Only(_, _)
Only(s, C) ==
    IF s = <<>> THEN <<>>
    ELSE (IF Head(s) \in C THEN <<Head(s)>> ELSE <<>>) \o Only(Tail(s), C)

\* str.replace(c, "")
Without(s, c) == Only(s, {s[i] : i \in 1..Len(s)} \ {c})

RECURSIVE DigitsValue(_)
DigitsValue(ds) ==
    IF ds = <<>> THEN 0
    ELSE 10 * DigitsValue(SubSeq(ds, 1, Len(ds) - 1)) + DigitVal(ds[Len(ds)])

\* digits, with at most one decimal point, and at least one digit
IsDecimal(b) ==
    /\ \A i \in 1..Len(b) : b[i] \in Digits \cup {"."}
    /\ Cardinality({i \in 1..Len(b) : b[i] = "."}) <= 1
    /\ \E i \in 1..Len(b) : b[i] \in Digits

FracDigits(b) ==
    LET dots == {i \in 1..Len(b) : b[i] = "."}
    IN  IF dots = {} THEN 0 ELSE Len(b) - SetMin(dots)

W_inf      == <<"i","n","f">>
W_infinity == <<"i","n","f","i","n","i","t","y">>
W_nan      == <<"n","a","n">>

\* float(t) for a text t: surrounding whitespace is ignored; an optional
\* sign; inf, infinity, nan in any case; or a decimal literal.  (Exponents and
\* digit-group underscores are not modelled: no input of the model has one.)
ParseFloat(t) ==
    LET u      == Strip(t)
        signed == u # <<>> /\ u[1] \in {"-", "+"}
        sign   == IF u # <<>> /\ u[1] = "-" THEN -1 ELSE 1
        body   == IF signed THEN Tail(u) ELSE u
    IN  IF Lower(body) \in {W_inf, W_infinity} THEN Inf(sign)
        ELSE IF Lower(body) = W_nan THEN NaN
        ELSE IF IsDecimal(body)
             THEN Num(sign * DigitsValue(Only(body, Digits)),
                      Pow10(FracDigits(body)))
             ELSE Fail

\* try: return float(t) * k  except ValueError: return 0.0
FloatOrZero(t, k) ==
    IF ParseFloat(t) = Fail THEN Int2Num(0) ELSE Times(ParseFloat(t), k)

W_undisclosed == <<"u","n","d","i","s","c","l","o","s","e","d">>
W_n_a         == <<"n","/","a">>
W_na          == <<"n","a">>
W_unknown     == <<"u","n","k","n","o","w","n">>
Sentinels == {W_undisclosed, W_n_a, W_na, W_unknown}

Million  == 1000000
Thousand == 1000

EndsWith(s, c) == s # <<>> /\ s[Len(s)] = c
DropLast(s) == SubSeq(s, 1, Len(s) - 1)

\* the parser without the lowercasing step
parse_money_no_lower(v) ==
    IF v.kind \in {"null", "nan"} THEN Int2Num(0)
    ELSE IF v.kind \in {"num", "inf"} THEN v
    ELSE LET s0 == Strip(v.s)
             s  == Strip(Without(Without(s0, "$"), ","))
         IN  IF s0 = <<>> THEN Int2Num(0)
             ELSE IF s \in Sentinels THEN Int2Num(0)
             ELSE IF EndsWith(s, "m") THEN FloatOrZero(DropLast(s), Million)
             ELSE IF EndsWith(s, "k") THEN FloatOrZero(DropLast(s), Thousand)
             ELSE FloatOrZero(s, 1)

\* parse_money(v)
parse_money(v) ==
    IF v.kind \in {"null", "nan"} THEN Int2Num(0)
    ELSE IF v.kind \in {"num", "inf"} THEN v
    ELSE LET s0 == Strip(v.s)
             s  == Lower(Strip(Without(Without(s0, "$"), ",")))
         IN  IF s0 = <<>> THEN Int2Num(0)
             ELSE IF s \in Sentinels THEN Int2Num(0)
             ELSE IF EndsWith(s, "m") THEN FloatOrZero(DropLast(s), Million)
             ELSE IF EndsWith(s, "k") THEN FloatOrZero(DropLast(s), Thousand)
             ELSE FloatOrZero(s, 1)

MaxMoneyLen == 3
MoneyAlphabet == {"$", "1", ".", "-", "m", "K", ",", " "}

M_50K        == <<"$","5","0","K">>
M_2M         == <<"$","2","M">>
M_1200000    == <<"$","1",",","2","0","0",",","0","0","0">>
M_1M         == <<"$","1","M">>
M_1_2M       == <<"$","1",".","2","M">>
M_Undisclosed == <<"U","n","d","i","s","c","l","o","s","e","d">>
M_NA         == <<"N","/","A">>
M_neg5       == <<"-","5">>
M_neg2k      == <<"-","$","2","k">>
M_abc        == <<"a","b","c">>
M_usd_NaN    == <<"$","N","a","N">>

SampleMoney == {M_50K, M_2M, M_1200000, M_1M, M_1_2M, M_Undisclosed, M_NA,
                M_neg5, M_neg2k, M_abc, M_usd_NaN, W_unknown, W_na, W_nan}

NumericInputs == {Int2Num(-5), Int2Num(0), Int2Num(1500), Num(15, 10)}

MoneyInputs ==
    {Null, NaN} \cup NumericInputs
    \cup {Text(t) : t \in TextsUpTo(MoneyAlphabet, MaxMoneyLen) \cup SampleMoney}

(***************************************************************************)
(* SpecMoney: the money parser applied to one scalar                       *)
(***************************************************************************)
InitMoney ==
    /\ money_arg \in MoneyInputs
    /\ money_res = Null
    /\ pcMoney = "start"
    /\ IdleClean /\ IdleDedupe /\ IdleDash /\ IdleInst /\ IdleEtl
    /\ IdleExtract

ParseMoney ==
    /\ pcMoney = "start"
    /\ money_res' = parse_money(money_arg)
    /\ pcMoney' = "done"
    /\ UNCHANGED <<money_arg, cleanVars, dedupeVars, dashVars, instVars, etlVars, extractVars>>

NextMoney == ParseMoney

SpecMoney == InitMoney /\ [][NextMoney]_vars

IsNonNegative(r) ==
    \/ r.kind = "num" /\ r.n >= 0
    \/ r.kind = "inf" /\ r.n > 0

\* C10: the money parser's result is a non-negative number for every scalar
\* input: a missing value, any number (negative ones too) and any text (also
\* one that parses to a negative number).
C10_MoneyNonNegative == pcMoney = "done" => IsNonNegative(money_res)

(***************************************************************************)
(* Ordering of column values                                               *)
(***************************************************************************)
\* the characters of the model in code-point order
CodeOrder == <<"\t", "\n", " ", "$", "'", ",", "-", ".", "/">> \o DigitSeq
             \o Uppers \o <<"_">> \o Lowers
Ord(c) == CHOOSE i \in 1..Len(CodeOrder) : CodeOrder[i] = c

\* Python's str < str on texts
RECURSIVE LexLess(_, _)
LexLess(a, b) ==
    IF b = <<>> THEN FALSE
    ELSE IF a = <<>> THEN TRUE
    ELSE IF Head(a) = Head(b) THEN LexLess(Tail(a), Tail(b))
    ELSE Ord(Head(a)) < Ord(Head(b))

\* the identifiers of the model in str order
IdOrder == <<"2025", "A", "B", "B1", "B2", "K1", "K2", "K3", "P1", "P2",
             "S1", "S2", "T1", "T2", "TX", "Texas Longhorns", "Unknown">>
IdRank(x) == CHOOSE i \in 1..Len(IdOrder) : IdOrder[i] = x
IdLess(x, y) == IdRank(x) < IdRank(y)

\* a < b for two non-null values of one column: numbers, or texts
ValLess(a, b) ==
    IF a.kind = "text" /\ b.kind = "text" THEN LexLess(a.s, b.s)
    ELSE a.n * b.d < b.n * a.d

IsNull(v) == v.kind \in {"null", "nan"}

\* the elements of a sequence as a set, and the selected sub-sequence
Range(q) == {q[i] : i \in 1..Len(q)}

RECURSIVE Select(_, _)
Select(q, S) ==
    IF q = <<>> THEN <<>>
    ELSE (IF Head(q) \in S THEN <<Head(q)>> ELSE <<>>) \o Select(Tail(q), S)

\* the permutations of a sequence
Perms(q) ==
    {[i \in 1..Len(q) |-> q[f[i]]] :
        f \in {g \in [1..Len(q) -> 1..Len(q)] :
                  \A i, j \in 1..Len(q) : g[i] = g[j] => i = j}}

(***************************************************************************)
(* dedupe_nil_deals.py                                                     *)
(***************************************************************************)
RawRow(dk, amt, pk, pn, team, sport) ==
    [deal_key |-> dk, deal_amount |-> amt, player_key |-> pk,
     player_name |-> pn, team_committed |-> team, sport_name |-> sport,
     player_state |-> "TX", player_position |-> NULL,
     player_class_year |-> "2025"]

\* df[df.player_key.notnull() & df.team_committed.notnull()]
value_df(d) ==
    Select(d, {r \in Range(d) : r.player_key # NULL /\ r.team_committed # NULL})

\* the groupby key of the aggregation
GroupKey(r) == <<r.player_key, r.player_name, r.team_committed>>

\* groupby drops a row whose key has a missing component (dropna=True)
GroupKeys(v) ==
    {GroupKey(r) : r \in {x \in Range(v) : \A i \in 1..3 : GroupKey(x)[i] # NULL}}

KeyLess(k1, k2) ==
    \E i \in 1..Len(k1) :
        /\ \A j \in 1..(i - 1) : k1[j] = k2[j]
        /\ IdLess(k1[i], k2[i])

\* groupby(sort=True): the keys in ascending order
RECURSIVE SortedKeys(_)
SortedKeys(K) ==
    IF K = {} THEN <<>>
    ELSE LET m == CHOOSE k \in K : \A o \in K \ {k} : KeyLess(k, o)
         IN  <<m>> \o SortedKeys(K \ {m})

GroupRows(v, k) == Select(v, {r \in Range(v) : GroupKey(r) = k})

\* ("col", "max"): the largest non-null value, null when there is none
agg_max(vals) ==
    LET nn == {x \in Range(vals) : ~IsNull(x)}
    IN  IF nn = {} THEN Null
        ELSE CHOOSE m \in nn : \A x \in nn : ~ValLess(m, x)

\* ("col", "nunique"): the number of distinct non-null identifiers
agg_nunique(ids) == Cardinality(Range(ids) \ {NULL})

\* the value of the first row of the group, missing or not
agg_first_row(ids) == ids[1]

\* ("col", "first"): the first non-null identifier, null when there is none
agg_first(ids) ==
    LET nn == {i \in 1..Len(ids) : ids[i] # NULL}
    IN  IF nn = {} THEN NULL ELSE ids[SetMin(nn)]

Column(rows, col) == [i \in 1..Len(rows) |-> rows[i][col]]

AthleteFact(k, rows) ==
    [player_key |-> k[1], player_name |-> k[2], team_committed |-> k[3],
     deal_value |-> agg_max(Column(rows, "deal_amount")),
     deal_count |-> agg_nunique(Column(rows, "deal_key")),
     sport_name |-> agg_first(Column(rows, "sport_name")),
     player_state |-> agg_first(Column(rows, "player_state")),
     player_position |-> agg_first(Column(rows, "player_position")),
     player_class_year |-> agg_first(Column(rows, "player_class_year"))]

\* value_df.groupby([...], as_index=False).agg(...)
Aggregate(v) ==
    LET ks == SortedKeys(GroupKeys(v))
    IN  [i \in 1..Len(ks) |-> AthleteFact(ks[i], GroupRows(v, ks[i]))]

\* descending by one column, missing values last
SortedDescNaLast(t, col) ==
    \A i, j \in 1..Len(t) :
        i < j =>
            /\ IsNull(t[i][col]) => IsNull(t[j][col])
            /\ ~IsNull(t[i][col]) /\ ~IsNull(t[j][col])
                  => ~ValLess(t[i][col], t[j][col])

\* the table left in the order of its groups
KeepGroupOrder(t, col) == {t}

\* sort_values(col, ascending=False, na_position="last"): the default sort
\* (quicksort) is not stable, equal values may come out in any order
SortValuesDesc(t, col) == {p \in Perms(t) : SortedDescNaLast(p, col)}

MaxRows == 2

Players == {<<"P1", "A">>, <<"P1", "B">>, <<"P1", NULL>>, <<NULL, NULL>>}
DedupeAmounts == {Null, Int2Num(5), Int2Num(7)}

DedupeRows ==
    {RawRow(dk, amt, p[1], p[2], "T1", "S1") :
        dk \in {"K1", "K2"}, amt \in DedupeAmounts, p \in Players}
    \cup {RawRow("K1", Int2Num(5), "P1", "A", team, sport) :
            team \in {"T2", NULL}, sport \in {"S1", NULL}}
    \cup {RawRow(NULL, Int2Num(5), "P1", "A", "T1", "S2")}

TablesUpTo(rows, n) == UNION {[1..k -> rows] : k \in 0..n}

\* three reports of one deal: amounts "$1M", "$1.2M", "$1M", keys K1, K1, K2
ScenarioRow(dk, amt) ==
    RawRow(dk, Text(amt), "P1", "A", "Texas Longhorns", "S1")
ScenarioDeals ==
    <<ScenarioRow("K1", M_1M), ScenarioRow("K1", M_1_2M), ScenarioRow("K2", M_1M)>>
\* the same three reports with the amounts as numbers
ScenarioNumeric ==
    <<RawRow("K1", Int2Num(1000000), "P1", "A", "Texas Longhorns", "S1"),
      RawRow("K1", Int2Num(1200000), "P1", "A", "Texas Longhorns", "S1"),
      RawRow("K2", Int2Num(1000000), "P1", "A", "Texas Longhorns", "S1")>>

DedupeInputs ==
    TablesUpTo(DedupeRows, MaxRows) \cup {ScenarioDeals, ScenarioNumeric}

InitDedupe ==
    /\ df \in DedupeInputs
    /\ athlete_fact = <<>>
    /\ final_df = <<>>
    /\ pcDedupe = "start"
    /\ IdleClean /\ IdleMoney /\ IdleDash /\ IdleInst /\ IdleEtl
    /\ IdleExtract

\* the whole script: load, filter, aggregate, sort, save
RunDedupe ==
    /\ pcDedupe = "start"
    /\ athlete_fact' = Aggregate(value_df(df))
    /\ final_df' \in SortValuesDesc(Aggregate(value_df(df)), "deal_value")
    /\ pcDedupe' = "saved"
    /\ UNCHANGED <<df, cleanVars, moneyVars, dashVars, instVars, etlVars, extractVars>>

\* sorting a table that was sorted before: the sort is a function of the
\* table, the same table comes out in the same order
sort_values_again(t, col, before, sorted_before) ==
    {p \in SortValuesDesc(t, col) : t = before => p = sorted_before}

\* the script started again on the same deals file: the saved table is
\* written anew
RunDedupeAgain ==
    /\ pcDedupe = "saved"
    /\ athlete_fact' = Aggregate(value_df(df))
    /\ final_df' \in sort_values_again(Aggregate(value_df(df)), "deal_value",
                                       athlete_fact, final_df)
    /\ pcDedupe' = "saved again"
    /\ UNCHANGED <<df, cleanVars, moneyVars, dashVars, instVars, etlVars, extractVars>>

NextDedupe == RunDedupe \/ RunDedupeAgain

SpecDedupe == InitDedupe /\ [][NextDedupe]_vars

\* the rows of the raw file that belong to athlete pk at team
AthleteRows(d, pk, team) ==
    Select(d, {r \in Range(d) : r.player_key = pk /\ r.team_committed = team})

AthleteTeamPairs(d) ==
    {<<r.player_key, r.team_committed>> :
        r \in {x \in Range(d) : x.player_key # NULL /\ x.team_committed # NULL}}

\* C1: dedup ceiling: for every group of raw rows sharing an athlete and a
\* team (player_key and team_committed not null) the emitted athlete fact has
\* deal_value = the maximum deal_amount of the group and deal_count = the
\* number of distinct deal_key values of the group, at most its row count.
C1_DedupCeiling ==
    pcDedupe = "saved" =>
        \A pt \in AthleteTeamPairs(df) :
            \A f \in Range(final_df) :
                f.player_key = pt[1] /\ f.team_committed = pt[2] =>
                    LET g == AthleteRows(df, pt[1], pt[2])
                    IN  /\ f.deal_value = agg_max(Column(g, "deal_amount"))
                        /\ f.deal_count = agg_nunique(Column(g, "deal_key"))
                        /\ f.deal_count <= Len(g)

\* C2: the athlete fact table holds exactly one row per (player_key,
\* team_committed) pair: no two of its rows share both, also when one
\* player_key comes with different player_name values.
C2_OneRowPerAthleteTeam ==
    pcDedupe = "saved" =>
        \A i, j \in 1..Len(final_df) :
            /\ final_df[i].player_key = final_df[j].player_key
            /\ final_df[i].team_committed = final_df[j].team_committed
            => i = j

NumEquals(v, k) == v.kind = "num" /\ v.n = k * v.d

\* C3: end-to-end scenario: the three reports of player P1 at "Texas
\* Longhorns" with amounts "$1M", "$1.2M", "$1M" and deal keys K1, K1, K2 give
\* exactly one athlete fact, with deal_value = 1,200,000 and deal_count = 2.
C3_EndToEndScenario ==
    pcDedupe = "saved" /\ df = ScenarioDeals =>
        /\ Len(final_df) = 1
        /\ NumEquals(final_df[1].deal_value, 1200000)
        /\ final_df[1].deal_count = 2

(***************************************************************************)
(* dashboard.py: the school-level summary table                            *)
(***************************************************************************)
\* float arithmetic on exact rationals; x / 0 is inf or nan, never an error
Add(a, b) == Num(a.n * b.d + b.n * a.d, a.d * b.d)

Div(a, b) ==
    IF b.n = 0
    THEN IF a.n = 0 THEN NaN ELSE Inf(IF a.n > 0 THEN 1 ELSE -1)
    ELSE IF b.n > 0 THEN Num(a.n * b.d, a.d * b.n)
    ELSE Num(-(a.n * b.d), -(a.d * b.n))

\* Series.sum(): missing values are skipped
RECURSIVE SumVals(_)
SumVals(vals) ==
    IF vals = <<>> THEN Int2Num(0)
    ELSE IF Head(vals).kind = "num" THEN Add(Head(vals), SumVals(Tail(vals)))
    ELSE SumVals(Tail(vals))

RECURSIVE SumInts(_)
SumInts(q) == IF q = <<>> THEN 0 ELSE Head(q) + SumInts(Tail(q))

\* ("col", "count"): the number of non-null values
agg_count(vals) == Cardinality({i \in 1..Len(vals) : ~IsNull(vals[i])})

\* ("col", "mean"): nan without values
agg_mean(vals) == Div(SumVals(vals), Int2Num(agg_count(vals)))

\* the non-null values in ascending order
RECURSIVE Ascending(_)
Ascending(vals) ==
    LET nn == {i \in 1..Len(vals) : ~IsNull(vals[i])}
    IN  IF nn = {} THEN <<>>
        ELSE LET m == CHOOSE i \in nn : \A j \in nn : ~ValLess(vals[j], vals[i])
             IN  <<vals[m]>> \o
                 Ascending([i \in 1..(Len(vals) - 1) |->
                               IF i < m THEN vals[i] ELSE vals[i + 1]])

\* ("col", "median")
agg_median(vals) ==
    LET a == Ascending(vals)
        k == Len(a)
    IN  IF k = 0 THEN NaN
        ELSE IF k % 2 = 1 THEN a[(k + 1) \div 2]
        ELSE Div(Add(a[k \div 2], a[k \div 2 + 1]), Int2Num(2))

\* the two filter widgets: an empty selection filters nothing
ApplyFilters(t, schools, sports) ==
    LET bySchool == IF schools = {} THEN t
                    ELSE Select(t, {r \in Range(t) : r.team_committed \in schools})
    IN  IF sports = {} THEN bySchool
        ELSE Select(bySchool, {r \in Range(bySchool) : r.sport_name \in sports})

MoneyKey(r) == <<r.team_committed, r.player_key>>

\* school_money with the notnull() row filter left out
school_money_unfiltered(fd) ==
    LET ks == SortedKeys({MoneyKey(r) : r \in Range(fd)})
    IN  [i \in 1..Len(ks) |->
            [team_committed |-> ks[i][1], player_key |-> ks[i][2],
             deal_value |->
                agg_max(Column(Select(fd,
                    {r \in Range(fd) : MoneyKey(r) = ks[i]}), "deal_value"))]]

\* school_money: the rows with a disclosed value, one per (team, player)
school_money_of(fd) ==
    LET known == Select(fd, {r \in Range(fd) : ~IsNull(r.deal_value)})
        ks    == SortedKeys({MoneyKey(r) :
                     r \in {x \in Range(known) :
                               x.team_committed # NULL /\ x.player_key # NULL}})
    IN  [i \in 1..Len(ks) |->
            [team_committed |-> ks[i][1], player_key |-> ks[i][2],
             deal_value |->
                agg_max(Column(Select(known,
                    {r \in Range(known) : MoneyKey(r) = ks[i]}), "deal_value"))]]

SchoolRow(team, rows) ==
    [team_committed |-> team,
     total_value  |-> SumVals(Column(rows, "deal_value")),
     avg_value    |-> agg_mean(Column(rows, "deal_value")),
     median_value |-> agg_median(Column(rows, "deal_value")),
     deal_count   |-> agg_count(Column(rows, "deal_value")),
     athletes     |-> agg_nunique(Column(rows, "player_key"))]

\* school_money.groupby("team_committed").agg(...).reset_index()
SchoolGroups(sm) ==
    LET ks == SortedKeys({<<r.team_committed>> : r \in Range(sm)})
    IN  [i \in 1..Len(ks) |->
            SchoolRow(ks[i][1],
                Select(sm, {r \in Range(sm) : r.team_committed = ks[i][1]}))]

\* the market-share columns, computed against the totals of the table
WithShares(t) ==
    LET total_value == SumVals(Column(t, "total_value"))
        total_deals == SumInts(Column(t, "deal_count"))
    IN  [i \in 1..Len(t) |->
            [team_committed |-> t[i].team_committed,
             total_value  |-> t[i].total_value,
             avg_value    |-> t[i].avg_value,
             median_value |-> t[i].median_value,
             deal_count   |-> t[i].deal_count,
             athletes     |-> t[i].athletes,
             pct_value    |-> Div(t[i].total_value, total_value),
             pct_deals    |-> Div(Int2Num(t[i].deal_count), Int2Num(total_deals))]]

\* the tables school_table may be: sorted by total_value, descending
school_tables_of(sm) ==
    {WithShares(t) : t \in SortValuesDesc(SchoolGroups(sm), "total_value")}

\* lines 70-73: the deals of 2022-2025, a missing sport or state replaced
\* by "Unknown"
load_deals(file) ==
    LET kept == Select(file, {r \in Range(file) :
                    r.deal_year >= 2022 /\ r.deal_year <= 2025})
    IN  [i \in 1..Len(kept) |->
            [kept[i] EXCEPT !.sport_name = IF @ = NULL THEN "Unknown" ELSE @,
                            !.player_state = IF @ = NULL THEN "Unknown" ELSE @]]

\* lines 116-129: the school and sport widgets, then the year slider
filter_deals(d, schools, sports, years) ==
    LET picked == ApplyFilters(d, schools, sports)
    IN  Select(picked, {r \in Range(picked) :
            r.deal_year >= years[1] /\ r.deal_year <= years[2]})

\* lines 145-147: rows with a deal_amount over distinct deal keys
share_reported_of(fdf) ==
    LET reported_deals == agg_count(Column(fdf, "deal_amount"))
        total_deals    == agg_nunique(Column(fdf, "deal_key"))
    IN  IF total_deals # 0
        THEN Div(Int2Num(reported_deals), Int2Num(total_deals))
        ELSE Int2Num(0)

TopN == 10

\* .head(10)
Head10(t) == SubSeq(t, 1, IF Len(t) < TopN THEN Len(t) ELSE TopN)

\* sort_values(col, ascending=False) on a column of counts: the default sort
\* (quicksort) is not stable, equal counts may come out in any order
SortByCountDesc(t, col) ==
    {p \in Perms(t) : \A i, j \in 1..Len(p) : i < j => p[i][col] >= p[j][col]}

\* the groups of a groupby in key order; a row with a missing key component
\* is in no group
KeysOf(fdf, cols) ==
    SortedKeys({[j \in 1..Len(cols) |-> r[cols[j]]] : r \in
        {x \in Range(fdf) : \A j \in 1..Len(cols) : x[cols[j]] # NULL}})

RowsOfKey(fdf, cols, k) ==
    Select(fdf, {r \in Range(fdf) : \A j \in 1..Len(cols) : r[cols[j]] = k[j]})

\* lines 211-220: deals counts the rows that have a deal_key
school_summary_of(fdf) ==
    LET ks == KeysOf(fdf, <<"team_committed">>)
        groups == [i \in 1..Len(ks) |->
            LET rows == RowsOfKey(fdf, <<"team_committed">>, ks[i])
            IN  [team_committed |-> ks[i][1],
                 deals |-> Cardinality({j \in 1..Len(rows) : rows[j].deal_key # NULL}),
                 athletes |-> agg_nunique(Column(rows, "player_key"))]]
    IN  {Head10(p) : p \in SortByCountDesc(groups, "deals")}

\* lines 260-267: groupby("company_name").size()
brand_volume_of(fdf) ==
    LET ks == KeysOf(fdf, <<"company_name">>)
        groups == [i \in 1..Len(ks) |->
            [company_name |-> ks[i][1],
             deal_count |-> Len(RowsOfKey(fdf, <<"company_name">>, ks[i]))]]
    IN  {Head10(p) : p \in SortByCountDesc(groups, "deal_count")}

\* lines 315-321: groupby(["player_key", "player_name"]).size()
athlete_volume_of(fdf) ==
    LET ks == KeysOf(fdf, <<"player_key", "player_name">>)
        groups == [i \in 1..Len(ks) |->
            [player_key |-> ks[i][1], player_name |-> ks[i][2],
             deal_count |->
                Len(RowsOfKey(fdf, <<"player_key", "player_name">>, ks[i]))]]
    IN  {Head10(p) : p \in SortByCountDesc(groups, "deal_count")}

DashPlayers == {<<"P1", "A">>, <<"P2", "B">>}
DashTeams   == {"T1", "T2"}
DashSports  == {"S1", "S2"}
DashAmounts == {Null, Int2Num(0), Int2Num(5)}

DashRows ==
    {RawRow(ks[1], amt, p[1], p[2], team, ks[2]) :
        ks \in {<<"K1", "S1">>, <<"K2", "S2">>}, amt \in DashAmounts,
        p \in DashPlayers, team \in DashTeams}

\* the athlete files the deduplication writes for the raw tables of the model
AthleteFiles ==
    UNION {SortValuesDesc(Aggregate(value_df(raw)), "deal_value") :
              raw \in TablesUpTo(DashRows, MaxRows)}

\* a row of the deals file as the dashboard reads it: the columns of the
\* deduplication plus the brand and the year of deal_date
Deal(dk, amt, pk, pn, team, sport, company, year) ==
    [company_name |-> company, deal_year |-> year]
        @@ RawRow(dk, amt, pk, pn, team, sport)

D_T1(dk, amt) == Deal(dk, amt, "P1", "A", "T1", "S1", "B1", 2023)
D_T2(dk, amt) == Deal(dk, amt, "P2", "B", "T2", "S2", "B2", 2024)

\* deals files: empty; one deal reported on two rows; two rows without a
\* deal_key at one school and one row with a key at another; one deal each at
\* two schools; an undisclosed deal and a deal of 2021; a deal without a
\* player name, a brand or a sport
DealFiles ==
    {<<>>,
     <<D_T1("K1", Int2Num(5)), D_T1("K1", Int2Num(7))>>,
     <<D_T1(NULL, Int2Num(5)), D_T1(NULL, Null), D_T2("K1", Int2Num(5))>>,
     <<D_T2("K2", Int2Num(5)), D_T1("K1", Int2Num(5))>>,
     <<D_T1("K1", Null), D_T2("K2", Int2Num(5)),
       Deal("K3", Int2Num(5), "P1", "A", "T1", "S1", "B1", 2021)>>,
     <<D_T1("K1", Int2Num(5)), D_T1("K2", Null),
       Deal("K3", Int2Num(5), "P2", NULL, "T2", NULL, NULL, 2023)>>}

DefaultDeals ==
    <<D_T2("K2", Int2Num(5)), D_T1("K1", Int2Num(5)), D_T1("K3", Null)>>

YearRanges == {<<2022, 2025>>, <<2024, 2025>>}

\* lines 67-73: the two files as loaded; the athlete file is the one the
\* deduplication wrote
InitDash ==
    /\ \/ /\ df_dedupe \in AthleteFiles
          /\ df_deals = load_deals(DefaultDeals)
       \/ \E file \in DealFiles :
             /\ df_deals = load_deals(file)
             /\ df_dedupe \in SortValuesDesc(Aggregate(value_df(file)), "deal_value")
    /\ selected_school = {}
    /\ selected_sports = {}
    /\ year_range = <<2022, 2025>>
    /\ filtered_dedupe = <<>>
    /\ school_money = <<>>
    /\ school_table = <<>>
    /\ filtered_df = <<>>
    /\ share_reported = Int2Num(0)
    /\ school_summary = <<>>
    /\ brand_volume = <<>>
    /\ athlete_volume = <<>>
    /\ branch = "start"
    /\ IdleClean /\ IdleMoney /\ IdleDedupe /\ IdleInst /\ IdleEtl
    /\ IdleExtract

\* one run of the script with the widgets set to schools, sports and years
\* (a run reads nothing that an earlier run computed)
RunDashboard(schools, sports, years) ==
    LET fd  == ApplyFilters(df_dedupe, schools, sports)
        sm  == school_money_of(fd)
        fdf == filter_deals(df_deals, schools, sports, years)
    IN  /\ branch = "start"
        /\ selected_school' = schools
        /\ selected_sports' = sports
        /\ year_range' = years
        /\ filtered_dedupe' = fd
        /\ filtered_df' = fdf
        /\ share_reported' = share_reported_of(fdf)
        /\ school_summary' \in school_summary_of(fdf)
        /\ brand_volume' \in brand_volume_of(fdf)
        /\ athlete_volume' \in athlete_volume_of(fdf)
        /\ school_money' = sm
        /\ IF sm = <<>>
           THEN /\ branch' = "warning"
                /\ school_table' = <<>>
           ELSE /\ branch' = "table"
                /\ school_table' \in school_tables_of(sm)
        /\ UNCHANGED <<df_dedupe, df_deals, cleanVars, moneyVars, dedupeVars,
                       instVars, etlVars, extractVars>>

NextDash ==
    \E schools \in SUBSET DashTeams, sports \in SUBSET DashSports,
       years \in YearRanges :
        RunDashboard(schools, sports, years)

SpecDash == InitDash /\ [][NextDash]_vars

IsOne(v) == v.kind = "num" /\ v.n = v.d

\* C4: share invariants: in every non-empty school summary the "% of NIL
\* Value" column sums to 1 and the "% of Deals" column sums to 1, also when
\* every disclosed deal_value of the view is 0.
C4_SharesSumToOne ==
    branch = "table" =>
        /\ IsOne(SumVals(Column(school_table, "pct_value")))
        /\ IsOne(SumVals(Column(school_table, "pct_deals")))

NoDisclosedValue(t) == \A r \in Range(t) : IsNull(r.deal_value)

\* C5: degenerate empty-value handling: when the filtered view holds no row
\* with a disclosed (non-null) deal_value, the run takes the explicit "no
\* data" branch (the warning) and computes no table, hence no share: nothing
\* is divided by zero and no NaN percentage exists.
C5_NoDataBranch ==
    branch \in {"warning", "table"} /\ NoDisclosedValue(filtered_dedupe) =>
        branch = "warning" /\ school_table = <<>>

\* a run whose filters leave athletes, none with a disclosed value, although
\* the file holds disclosed values
C5_Witness ==
    /\ branch = "warning"
    /\ filtered_dedupe # <<>>
    /\ NoDisclosedValue(filtered_dedupe)
    /\ selected_school # {}
    /\ ~NoDisclosedValue(df_dedupe)

(***************************************************************************)
(* nil_institution_extract.py                                              *)
(***************************************************************************)
possible_name_cols ==
    <<"school_name_ipeds", "school_name", "institution_name", "inst_name", "name">>
possible_team_cols == <<"team_committed", "team_transferred_from", "team_name">>

\* next((c for c in aliases if c in columns), None)
FirstPresent(aliases, columns) ==
    LET hits == {i \in 1..Len(aliases) : aliases[i] \in columns}
    IN  IF hits = {} THEN NULL ELSE aliases[SetMin(hits)]

\* Series.astype(str): a missing value becomes the text "nan"
AsStr(t) == IF t = NullText THEN W_nan ELSE t

N_Ohio == <<"O", "h", "i", "o">>
N_Texas_FB == <<"T", "e", "x", "a", "s", " ", "F", "B">>

\* clean_name is a function of its argument: the names that stand in the
\* files of the model are cleaned once and looked up afterwards
FileNames == {T_texas, T_The, N_Ohio, N_Texas_FB, W_nan}
cleaned == [s \in FileNames |-> clean_name(s)]
apply_clean_name(s) == IF s \in FileNames THEN cleaned[s] ELSE clean_name(s)

\* the helper columns added to every deal row
team_name_raw(r) == Strip(AsStr(r.team))
team_name_clean(r) == apply_clean_name(team_name_raw(r))

WithHelpers(d) ==
    [i \in 1..Len(d) |->
        [deal_amount_num |-> parse_money(d[i].deal_amount),
         team_name_raw   |-> team_name_raw(d[i]),
         team_name_clean |-> team_name_clean(d[i])] @@ d[i]]

\* nil[nil["team_name_clean"] != ""]
NonBlank(d) == Select(d, {r \in Range(d) : r.team_name_clean # <<>>})

\* Series.unique(): the distinct values in order of first appearance
RECURSIVE Unique(_)
Unique(q) ==
    IF q = <<>> THEN <<>>
    ELSE LET front == Unique(SubSeq(q, 1, Len(q) - 1))
         IN  IF q[Len(q)] \in Range(front) THEN front
             ELSE Append(front, q[Len(q)])

\* the team name of every row, repeated ones too
teams_of_rows(d) == Column(NonBlank(WithHelpers(d)), "team_name_clean")

unique_teams(d) == Unique(Column(NonBlank(WithHelpers(d)), "team_name_clean"))

\* ipeds[name_col].astype(str).apply(clean_name)
ipeds_names(reg) == [i \in 1..Len(reg) |-> apply_clean_name(AsStr(reg[i].name))]

\* the scorer's pick with ties broken differently on a second run
extractOne_by_run(sc) ==
    LET best == SetMax(Range(sc))
        ties == {i \in 1..Len(sc) : sc[i] = best}
    IN  [score |-> best, idx |-> IF run = 2 THEN SetMax(ties) ELSE SetMin(ties)]

\* process.extractOne over the scores sc of the choices: the best score and
\* the first choice that has it
extractOne(sc) ==
    LET best == SetMax(Range(sc))
    IN  [score |-> best, idx |-> SetMin({i \in 1..Len(sc) : sc[i] = best})]

Threshold == 85

\* the acceptance test with the boundary score left out
AcceptsAbove(score) == score > Threshold

\* if score >= 85
Accepts(score) == score >= Threshold

\* the names of the loop that get a mapping, in loop order
AcceptedTeams(teams, scores) ==
    Select(teams, {t \in Range(teams) : Accepts(extractOne(scores[t]).score)})

\* the record taken from the last registry row that has the best score
MappingRecordOfLast(t, reg, scores) ==
    LET best == SetMax(Range(scores[t]))
        idx  == SetMax({i \in 1..Len(scores[t]) : scores[t][i] = best})
    IN  [team_name_clean |-> t,
         matched_school_clean |-> ipeds_names(reg)[idx],
         match_score |-> best,
         unitid |-> reg[idx].unitid,
         iped_school_original |-> reg[idx].name]

\* lines 220-232: the record of an accepted name
MappingRecord(t, reg, scores) ==
    LET m == extractOne(scores[t])
    IN  [team_name_clean |-> t,
         matched_school_clean |-> ipeds_names(reg)[m.idx],
         match_score |-> m.score,
         unitid |-> reg[m.idx].unitid,
         iped_school_original |-> reg[m.idx].name]

\* a record for every name of the loop, accepted or not
mapping_records_all(teams, reg, scores) ==
    [i \in 1..Len(teams) |-> MappingRecord(teams[i], reg, scores)]

mapping_records(teams, reg, scores) ==
    LET acc == AcceptedTeams(teams, scores)
    IN  [i \in 1..Len(acc) |-> MappingRecord(acc[i], reg, scores)]

mapping_of(teams, reg, scores) ==
    [t \in Range(AcceptedTeams(teams, scores)) |->
        reg[extractOne(scores[t]).idx].unitid]

\* sort_values("match_score", ascending=False), ties in any order
SortByScoreDesc(recs) ==
    {p \in Perms(recs) :
        \A i, j \in 1..Len(p) : i < j => p[i].match_score >= p[j].match_score}

\* sorting the records that were sorted before (saved is the QA table of
\* the run before): the same records come out in the same order
sort_by_score_again(recs, saved) ==
    {p \in SortByScoreDesc(recs) : saved \in Perms(recs) => p = saved}

\* nil["unitid"] = nil["team_name_clean"].map(mapping); dropna(subset=["unitid"])
mapped_of(d, map) ==
    LET rows == NonBlank(WithHelpers(d))
        keep == Select(rows, {r \in Range(rows) : r.team_name_clean \in DOMAIN map})
    IN  [i \in 1..Len(keep) |->
            [unitid |-> map[keep[i].team_name_clean]] @@ keep[i]]

\* Series.astype(bool): only False (and 0) is false, a missing value is true
AsBool(v) == v # "False"

\* the helper fields of the aggregation; an absent column gets its default
verified_bool(r, columns) ==
    LET verified_col == FirstPresent(<<"verified", "verified_flag">>, columns)
    IN  IF verified_col = NULL THEN FALSE ELSE AsBool(r.verified)

\* the stars of a deal read from the row whether or not the file has the column
stars_of_any_row(r, columns) ==
    IF ~IsNull(r.stars) THEN r.stars ELSE Int2Num(0)

stars_of(r, columns) ==
    IF "stars" \in columns /\ ~IsNull(r.stars) THEN r.stars ELSE Int2Num(0)

\* float product: a missing factor gives a missing product
Mul(a, b) ==
    IF a.kind = "num" /\ b.kind = "num" THEN Num(a.n * b.n, a.d * b.d) ELSE NaN

RECURSIVE SortedInts(_)
SortedInts(S) ==
    IF S = {} THEN <<>> ELSE <<SetMin(S)>> \o SortedInts(S \ {SetMin(S)})

\* the quotient taken whatever the stars sum is
dollars_per_star_unguarded(weighted_total, stars_sum) ==
    Div(weighted_total, stars_sum)

\* lines 305-309: r["nil_stars_weighted_total"] / r["nil_stars_sum"]
\* if r["nil_stars_sum"] > 0 else 0
dollars_per_star(weighted_total, stars_sum) ==
    IF stars_sum.n > 0 THEN Div(weighted_total, stars_sum) ELSE Int2Num(0)

InstRow(u, rows, columns) ==
    LET amounts == Column(rows, "deal_amount_num")
        stars   == [i \in 1..Len(rows) |-> stars_of(rows[i], columns)]
        weighted == [i \in 1..Len(rows) |-> Mul(stars[i], amounts[i])]
        stars_sum == SumVals(stars)
    IN  [unitid |-> u,
         nil_deal_count |-> Cardinality({i \in 1..Len(rows) : rows[i].deal_key # NULL}),
         nil_total_dollars |-> SumVals(amounts),
         nil_avg_deal |-> agg_mean(amounts),
         nil_median_deal |-> agg_median(amounts),
         nil_verified_count |->
            Cardinality({i \in 1..Len(rows) : verified_bool(rows[i], columns)}),
         nil_distinct_players |-> agg_nunique(Column(rows, "player_key")),
         nil_distinct_companies |-> agg_nunique(Column(rows, "company_key")),
         nil_stars_sum |-> stars_sum,
         nil_stars_weighted_total |-> SumVals(weighted),
         nil_dollars_per_star |-> dollars_per_star(SumVals(weighted), stars_sum)]

\* mapped.groupby("unitid").agg(...).reset_index()
inst_nil_of(m, columns) ==
    LET us == SortedInts({r.unitid : r \in Range(m)})
    IN  [i \in 1..Len(us) |->
            InstRow(us[i], Select(m, {r \in Range(m) : r.unitid = us[i]}), columns)]

\* the inputs of a run: the deals file, the registry and the similarity
\* scores of the cleaned team names against the registry names
MaxDeals == 2
Scores == {84, 85}

DealRow(team, pk, stars) ==
    [team |-> team, player_key |-> pk, deal_key |-> "K1", company_key |-> "B",
     deal_amount |-> Int2Num(100), verified |-> "True", stars |-> stars]

DealRows ==
    {DealRow(team, "P1", Int2Num(4)) : team \in {NullText, T_texas, N_Ohio}}

DealTables == TablesUpTo(DealRows, MaxDeals)

SampleDeals ==
    {<<DealRow(T_texas, "P1", Int2Num(4)), DealRow(N_Ohio, "P2", Null)>>,
     <<DealRow(T_texas, "P1", Int2Num(0))>>,
     <<DealRow(T_The, "P1", Int2Num(4)), DealRow(T_texas, "P2", Int2Num(4))>>,
     <<DealRow(T_The, "P1", Int2Num(4))>>,
     <<DealRow(T_texas, "P1", Int2Num(4)), DealRow(N_Texas_FB, "P2", Int2Num(4))>>,
     <<DealRow(T_texas, NULL, Int2Num(4))>>}

RegistryRow(name, unitid) == [name |-> name, unitid |-> unitid]

Registries ==
    {<<>>, <<RegistryRow(T_texas, 100)>>,
     <<RegistryRow(T_texas, 100), RegistryRow(N_Ohio, 200)>>}

AllNilColumns ==
    {"team_committed", "player_key", "deal_key", "company_key", "deal_amount",
     "verified", "stars"}
NilColumnSets ==
    {AllNilColumns, AllNilColumns \ {"team_committed"},
     AllNilColumns \ {"deal_amount"}, AllNilColumns \ {"verified", "stars"}}

AllIpedsColumns == {"school_name", "unitid"}
IpedsColumnSets == {AllIpedsColumns, {"unitid"}}

othersIdleForInst ==
    IdleClean /\ IdleMoney /\ IdleDedupe /\ IdleDash /\ IdleEtl /\ IdleExtract

InitInst ==
    /\ othersIdleForInst
    /\ ipeds \in Registries
    /\ nil \in DealTables \cup SampleDeals
    /\ wratio \in [Range(unique_teams(nil)) -> [1..Len(ipeds) -> Scores]]
    /\ nil_columns \in NilColumnSets
    /\ ipeds_columns \in IpedsColumnSets
    /\ \/ nil_columns = AllNilColumns /\ ipeds_columns = AllIpedsColumns
       \/ nil \in SampleDeals
    /\ mapping = EmptyMap
    /\ mapping_df = <<>>
    /\ inst_nil = <<>>
    /\ pcInst = "start"
    /\ match_calls = <<>>
    /\ failure = NoFailure
    /\ run = 1
    /\ first_resolved = {}

\* raise: the run ends with the exception and writes nothing more
Raise(kind, message, names) ==
    /\ pcInst' = "failed"
    /\ failure' = Exception(kind, message, names)

\* lines 53-239: load both files, clean the names, match every distinct
\* team name against the registry and save the accepted mappings
ResolveTeams ==
    /\ pcInst = "start"
    /\ LET name_col == FirstPresent(possible_name_cols, ipeds_columns)
           team_col == FirstPresent(possible_team_cols, nil_columns)
           teams    == unique_teams(nil)
           recs     == mapping_records(teams, ipeds, wratio)
       IN  IF name_col = NULL
           THEN /\ Raise("ValueError",
                         "Could not detect institution name column in IPEDS. Available columns:",
                         ipeds_columns)
                /\ UNCHANGED <<mapping, mapping_df, match_calls>>
           ELSE IF "deal_amount" \notin nil_columns
           THEN /\ Raise("ValueError",
                         "NIL CSV must contain a 'deal_amount' column.",
                         {"deal_amount"})
                /\ UNCHANGED <<mapping, mapping_df, match_calls>>
           ELSE IF team_col = NULL
           THEN /\ Raise("ValueError",
                         "Could not find any team_* column in NIL dataset. Available columns:",
                         nil_columns)
                /\ UNCHANGED <<mapping, mapping_df, match_calls>>
           ELSE IF teams # <<>> /\ ipeds = <<>>
           THEN \* extractOne returns None for no choices; unpacking it fails
                /\ Raise("TypeError",
                         "cannot unpack non-iterable NoneType object", {})
                /\ match_calls' = <<teams[1]>>
                /\ UNCHANGED <<mapping, mapping_df>>
           ELSE IF recs = <<>>
           THEN \* DataFrame([]) has no columns to sort by
                /\ Raise("KeyError", "match_score", {"match_score"})
                /\ match_calls' = teams
                /\ UNCHANGED <<mapping, mapping_df>>
           ELSE /\ mapping' = mapping_of(teams, ipeds, wratio)
                /\ mapping_df' \in sort_by_score_again(recs, mapping_df)
                /\ match_calls' = teams
                /\ pcInst' = "mapping saved"
                /\ UNCHANGED failure
    /\ UNCHANGED <<nil_columns, nil, ipeds_columns, ipeds, wratio, inst_nil,
                   run, first_resolved>>
    /\ UNCHANGED <<cleanVars, moneyVars, dedupeVars, dashVars, etlVars, extractVars>>

\* lines 241-318: apply the mapping, keep the mapped deals, aggregate them
\* by institution and save the table.  (The names of the mapping are names
\* of deals, so mapped is empty only when the matched registry rows have no
\* unitid; every registry row of the model has one.)
AggregateInstitutions ==
    /\ pcInst = "mapping saved"
    /\ LET mapped == mapped_of(nil, mapping)
       IN  IF mapped = <<>>
           THEN /\ Raise("RuntimeError",
                         "No NIL deals were successfully mapped to institutions.",
                         {})
                /\ UNCHANGED inst_nil
           ELSE /\ inst_nil' = inst_nil_of(mapped, nil_columns)
                /\ pcInst' = "done"
                /\ UNCHANGED failure
    /\ UNCHANGED <<nil_columns, nil, ipeds_columns, ipeds, wratio, mapping,
                   mapping_df, match_calls, run, first_resolved>>
    /\ UNCHANGED <<cleanVars, moneyVars, dedupeVars, dashVars, etlVars, extractVars>>

\* the script is started again on the same two files: the files it saved
\* stay on disk, its memory is fresh
RunAgain ==
    /\ pcInst \in {"done", "failed"}
    /\ run = 1
    /\ run' = 2
    /\ first_resolved' = Range(mapping_df)
    /\ pcInst' = "start"
    /\ mapping' = EmptyMap
    /\ match_calls' = <<>>
    /\ failure' = NoFailure
    /\ UNCHANGED <<nil_columns, nil, ipeds_columns, ipeds, wratio, mapping_df,
                   inst_nil>>
    /\ UNCHANGED <<cleanVars, moneyVars, dedupeVars, dashVars, etlVars, extractVars>>

NextInst == ResolveTeams \/ AggregateInstitutions \/ RunAgain

SpecInst == InitInst /\ [][NextInst]_vars

(***************************************************************************)
(* Claims about the institution build                                      *)
(***************************************************************************)
HasStrongMatch(t) == \E i \in DOMAIN wratio[t] : wratio[t][i] >= 85

AcceptedDeals ==
    Select(nil, {r \in Range(nil) :
        /\ team_name_clean(r) \in DOMAIN wratio
        /\ HasStrongMatch(team_name_clean(r))})

\* C6: once the mapping is saved, a cleaned team name has a mapping if and
\* only if its best score against the registry is at least 85 (a run that
\* saves no mapping had no name with such a score), and the
\* finished institution table is the table of the accepted deals alone: a
\* deal whose cleaned team name has no mapping contributes to no row.
C6_ThresholdAcceptance ==
    /\ pcInst \in {"mapping saved", "done"} =>
          \A t \in DOMAIN wratio : t \in DOMAIN mapping <=> HasStrongMatch(t)
    /\ failure.kind = "KeyError" => \A t \in DOMAIN wratio : ~HasStrongMatch(t)
    /\ pcInst = "done" =>
          inst_nil = inst_nil_of(mapped_of(AcceptedDeals, mapping), nil_columns)

\* a finished run where one name was accepted at exactly 85 and another
\* name, with a deal of its own, was rejected
C6_Witness ==
    /\ pcInst = "done"
    /\ \E t, u \in DOMAIN wratio :
          /\ SetMax(Range(wratio[t])) = 85 /\ t \in DOMAIN mapping
          /\ SetMax(Range(wratio[u])) = 84 /\ u \notin DOMAIN mapping
    /\ Len(AcceptedDeals) < Len(nil)
    /\ inst_nil # <<>>

Participates(r) == r.team # NullText /\ r.player_key # NULL

\* C7: a deal with a null player_key or a null team name takes no part in
\* the resolution: the names matched against the registry are names of
\* deals that have both, and the finished institution table is the table of
\* those deals alone.
C7_NullsNeverParticipate ==
    pcInst \in {"mapping saved", "done"} =>
        LET full == Select(nil, {r \in Range(nil) : Participates(r)})
        IN  /\ Range(unique_teams(nil)) \subseteq Range(unique_teams(full))
            /\ pcInst = "done" =>
                  inst_nil = inst_nil_of(mapped_of(full, mapping), nil_columns)

(***************************************************************************)
(* Claims about the money parser                                           *)
(***************************************************************************)
\* the text of an amount as the rules see it: '$' and ',' removed, trimmed,
\* lowercased; and the part that has to be a number
RuleText(t) == Lower(Strip(Without(Without(Strip(t), "$"), ",")))
NumberPart(t) ==
    IF EndsWith(RuleText(t), "m") \/ EndsWith(RuleText(t), "k")
    THEN DropLast(RuleText(t)) ELSE RuleText(t)

\* t is a signed decimal literal, the only texts that denote a number
IsNumberText(t) ==
    LET u    == Strip(t)
        body == IF u # <<>> /\ u[1] \in {"-", "+"} THEN Tail(u) ELSE u
    IN  IsDecimal(body)

\* C11: the money parser never raises, and a text whose number part cannot
\* be parsed as a number (with or without a trailing m or k, a bare "m" or
\* "k" included) gives 0.
C11_FailSoft ==
    pcMoney = "done" =>
        /\ money_res.kind # "fail"
        /\ money_arg.kind = "text" /\ ~IsNumberText(NumberPart(money_arg.s))
              => money_res = Int2Num(0)

\* the value of a decimal literal, times k
LiteralTimes(t, k) ==
    LET u    == Strip(t)
        neg  == u[1] = "-"
        body == IF u[1] \in {"-", "+"} THEN Tail(u) ELSE u
        n    == DigitsValue(Only(body, Digits))
    IN  Num((IF neg THEN -n ELSE n) * k, Pow10(FracDigits(body)))

SameNumber(a, b) == a.kind = "num" /\ b.kind = "num" /\ a.n * b.d = b.n * a.d

\* C12: the parsing rules in order: a missing value gives 0; a number gives
\* itself; a text, with '$' and ',' removed and lowercased, gives 0 for a
\* sentinel, the remainder times 1,000,000 when it ends in m, the remainder
\* times 1,000 when it ends in k, and the plain number otherwise.  "$50K"
\* gives 50000, "$2M" 2000000, "$1,200,000" 1200000, "Undisclosed" 0, a
\* missing value 0 and the number 1500 gives 1500.
C12_ParsingRules ==
    pcMoney = "done" =>
        /\ IsNull(money_arg) => money_res = Int2Num(0)
        /\ money_arg.kind = "num" => money_res = money_arg
        /\ money_arg.kind = "text" =>
              LET s == RuleText(money_arg.s)
              IN  /\ s \in {W_undisclosed, W_n_a, W_na, W_unknown}
                        => money_res = Int2Num(0)
                  /\ IsNumberText(NumberPart(money_arg.s)) =>
                        SameNumber(money_res,
                            LiteralTimes(NumberPart(money_arg.s),
                                IF EndsWith(s, "m") THEN 1000000
                                ELSE IF EndsWith(s, "k") THEN 1000 ELSE 1))
        /\ money_arg = Text(M_50K) => NumEquals(money_res, 50000)
        /\ money_arg = Text(M_2M) => NumEquals(money_res, 2000000)
        /\ money_arg = Text(M_1200000) => NumEquals(money_res, 1200000)
        /\ money_arg = Text(M_Undisclosed) => NumEquals(money_res, 0)
        /\ money_arg = Int2Num(1500) => NumEquals(money_res, 1500)

\* the suffix rule has acted on a text with a decimal point
C12_Witness ==
    /\ pcMoney = "done"
    /\ money_arg = Text(M_1_2M)
    /\ NumEquals(money_res, 1200000)

\* the unitids that deal row x of the deals file received
UnitidsOf(x, m) ==
    {q.unitid : q \in {q \in Range(m) : [f \in DOMAIN x |-> q[f]] = x}}

\* C13: the scorer is called once per distinct cleaned team name, not once
\* per deal row; a cleaned name has at most one unitid; and two deals that
\* share a cleaned name receive the same unitid or are both unmapped.
C13_OncePerDistinctName ==
    /\ \A i, j \in 1..Len(match_calls) : match_calls[i] = match_calls[j] => i = j
    /\ pcInst \in {"mapping saved", "done"} =>
          LET deals  == WithHelpers(nil)
              mapped == mapped_of(nil, mapping)
          IN  /\ Range(match_calls)
                    = {r.team_name_clean : r \in Range(deals)} \ {<<>>}
              /\ \A a, b \in Range(mapping_df) :
                    a.team_name_clean = b.team_name_clean => a.unitid = b.unitid
              /\ \A a, b \in Range(deals) :
                    a.team_name_clean = b.team_name_clean =>
                        UnitidsOf(a, mapped) = UnitidsOf(b, mapped)

\* two deals with different raw team names and one cleaned name were
\* resolved by a single call and both counted for the institution
C13_Witness ==
    /\ pcInst = "done"
    /\ Len(match_calls) = 1
    /\ \E i, j \in 1..Len(nil) :
          /\ nil[i].team # nil[j].team
          /\ team_name_clean(nil[i]) = team_name_clean(nil[j])
    /\ Len(inst_nil) = 1 /\ inst_nil[1].nil_deal_count = 2

Resolution(rec) ==
    [team_name_clean |-> rec.team_name_clean, unitid |-> rec.unitid,
     match_score |-> rec.match_score]

C15_QaTableMatchesMapping ==
    pcInst \in {"mapping saved", "done"} =>
        /\ {rec.team_name_clean : rec \in Range(mapping_df)} = DOMAIN mapping
        /\ \A i, j \in 1..Len(mapping_df) :
              mapping_df[i].team_name_clean = mapping_df[j].team_name_clean
                  => i = j
        /\ \A rec \in Range(mapping_df) :
              /\ rec.unitid = mapping[rec.team_name_clean]
              /\ rec.match_score >= 85

\* a QA table was saved while another name of the deals was rejected
C15_Witness ==
    /\ pcInst = "mapping saved"
    /\ mapping_df # <<>>
    /\ \E t \in DOMAIN wratio : t \notin DOMAIN mapping

NoNameColumn == FirstPresent(possible_name_cols, ipeds_columns) = NULL
NoTeamColumn == FirstPresent(possible_team_cols, nil_columns) = NULL

\* C16: when the registry has none of the name aliases, or the deals file
\* none of the team aliases, the run stops with a failure whose message names
\* the aliases that were tried and the columns that are present; no name is
\* matched and no table is written.
C16_MissingIdentityColumn ==
    pcInst # "start" /\ (NoNameColumn \/ NoTeamColumn) =>
        /\ pcInst = "failed" /\ failure.kind = "ValueError"
        /\ NoNameColumn =>
              Range(possible_name_cols) \cup ipeds_columns \subseteq failure.names
        /\ ~NoNameColumn =>
              Range(possible_team_cols) \cup nil_columns \subseteq failure.names
        /\ match_calls = <<>> /\ mapping_df = <<>> /\ inst_nil = <<>>

\* C17: when both files have their columns and no cleaned team name reaches
\* the threshold, so that no deal resolves to an institution, the run ends
\* with the failure "No NIL deals were successfully mapped to institutions"
\* and writes no institution table.
C17_NoDealsMappedFailure ==
    /\ pcInst \in {"failed", "mapping saved", "done"}
    /\ ~NoNameColumn /\ ~NoTeamColumn /\ "deal_amount" \in nil_columns
    /\ \A t \in DOMAIN wratio : ~HasStrongMatch(t)
    => /\ pcInst = "failed"
       /\ failure.kind = "RuntimeError"
       /\ failure.message = "No NIL deals were successfully mapped to institutions."
       /\ inst_nil = <<>>

(***************************************************************************)
(* Claims about the school summary                                         *)
(***************************************************************************)
\* the athlete facts that the summary row of a team aggregates
FactsOf(team) ==
    Select(filtered_dedupe,
           {r \in Range(filtered_dedupe) :
               r.team_committed = team /\ ~IsNull(r.deal_value)})

\* C18: in the school summary each row's deal_count is the sum of the
\* deal_count values of the athlete facts aggregated into the row: an
\* athlete with several distinct deals contributes all of them.
C18_DealCountIsSum ==
    branch = "table" =>
        \A i \in 1..Len(school_table) :
            school_table[i].deal_count
                = SumInts(Column(FactsOf(school_table[i].team_committed),
                                 "deal_count"))

(***************************************************************************)
(* etl.py: test_joins() and the end of main()                              *)
(***************************************************************************)
\* left.merge(right, how="left"): every left row, in order, once per
\* matching right row (in the right table's order) and once with a missing
\* right side when nothing matches.
RECURSIVE Flatten(_)
Flatten(qs) == IF qs = <<>> THEN <<>> ELSE Head(qs) \o Flatten(Tail(qs))

\* the rows of the right table whose column col has the value key
Hits(key, right, col) == Select(right, {r \in Range(right) : r[col] = key})

\* ipeds.merge(eada, on="unitid", how="left", suffixes=("_ipeds", "_eada"))
J1Row(l, r) ==
    [unitid |-> l.unitid,
     school_name_ipeds |-> l.school_name, state_abbr_ipeds |-> l.state_abbr,
     school_name_eada |-> r.school_name, state_abbr_eada |-> r.state_abbr]
J1Alone(l) == J1Row(l, [school_name |-> NULL, state_abbr |-> NULL])
j1_of(ip, ea) ==
    Flatten([k \in 1..Len(ip) |->
        LET hits == Hits(ip[k].unitid, ea, "unitid")
        IN  IF hits = <<>> THEN <<J1Alone(ip[k])>>
            ELSE [i \in 1..Len(hits) |-> J1Row(ip[k], hits[i])]])

\* ipeds.merge(fcc, on="state_abbr", how="left")
J2Row(l, r) ==
    [unitid |-> l.unitid, school_name |-> l.school_name,
     state_abbr |-> l.state_abbr,
     coverage_mobile_score |-> r.coverage_mobile_score]
J2Alone(l) == J2Row(l, [coverage_mobile_score |-> Null])
j2_of(ip, fc) ==
    Flatten([k \in 1..Len(ip) |->
        LET hits == Hits(ip[k].state_abbr, fc, "state_abbr")
        IN  IF hits = <<>> THEN <<J2Alone(ip[k])>>
            ELSE [i \in 1..Len(hits) |-> J2Row(ip[k], hits[i])]])

\* j1.merge(fcc, left_on="state_abbr_ipeds", right_on="state_abbr", how="left")
J3Row(l, r) ==
    [unitid |-> l.unitid, school_name_eada |-> l.school_name_eada,
     state_abbr_ipeds |-> l.state_abbr_ipeds,
     coverage_mobile_score |-> r.coverage_mobile_score]
J3Alone(l) == J3Row(l, [coverage_mobile_score |-> Null])
j3_of(j1, fc) ==
    Flatten([k \in 1..Len(j1) |->
        LET hits == Hits(j1[k].state_abbr_ipeds, fc, "state_abbr")
        IN  IF hits = <<>> THEN <<J3Alone(j1[k])>>
            ELSE [i \in 1..Len(hits) |-> J3Row(j1[k], hits[i])]])

\* Series.notna().mean(): the share of rows with a value, nan for no rows
NotnaMeanIds(ids) ==
    Div(Int2Num(Cardinality({i \in 1..Len(ids) : ids[i] # NULL})),
        Int2Num(Len(ids)))
NotnaMeanVals(vals) == Div(Int2Num(agg_count(vals)), Int2Num(Len(vals)))

\* f"{x:.3f}": a share rounded to thousandths (nan stays nan)
Format3(v) ==
    IF v.kind # "num" THEN v
    ELSE Num((2000 * v.n + v.d) \div (2 * v.d), 1000)

Printed(line, value) == [line |-> line, value |-> value]

ProcessedFiles == {"ipeds", "eada", "fcc"}

\* os.path.exists(ipeds_path) and os.path.exists(eada_path) and ...
OnlyIpedsExists(files) == "ipeds" \in files

AllExist(files) == ProcessedFiles \subseteq files

\* the processed files after steps 1-4 of main(): each exists or not; the
\* institution file has one row per unitid (drop_duplicates), the other two
\* are written as their raw files give them
MaxJoinRows == 2

IpedsCsvRows ==
    {[unitid |-> u, school_name |-> "A", state_abbr |-> st] :
        u \in {100, 200}, st \in {"TX", "OH"}}
EadaCsvRows ==
    {[unitid |-> u, school_name |-> n, state_abbr |-> "TX"] :
        u \in {100, 200}, n \in {"B", NULL}}
FccCsvRows ==
    {[state_abbr |-> st, coverage_mobile_score |-> Int2Num(1)] :
        st \in {"TX", "OH"}}

IpedsCsvFiles ==
    {t \in TablesUpTo(IpedsCsvRows, MaxJoinRows) :
        \A i, j \in 1..Len(t) : t[i].unitid = t[j].unitid => i = j}

InitEtl ==
    /\ IdleClean /\ IdleMoney /\ IdleDedupe /\ IdleDash /\ IdleInst
    /\ IdleExtract
    /\ processed \in SUBSET ProcessedFiles
    /\ ipeds_csv \in IF "ipeds" \in processed THEN IpedsCsvFiles ELSE {<<>>}
    /\ eada_csv \in IF "eada" \in processed
                    THEN TablesUpTo(EadaCsvRows, MaxJoinRows) ELSE {<<>>}
    /\ fcc_csv \in IF "fcc" \in processed
                   THEN TablesUpTo(FccCsvRows, MaxJoinRows) ELSE {<<>>}
    /\ join_log = <<>>
    /\ etl_failure = NoFailure
    /\ pcEtl = "join validation"
    /\ IdleDownload

\* test_joins().  Both school tables are written with school_name and
\* state_abbr columns and the coverage table with coverage_mobile_score, so
\* the joined tables have the columns the rates are read from.
TestJoins ==
    /\ pcEtl = "join validation"
    /\ IF ~AllExist(processed)
       THEN /\ join_log' = <<Printed(
                   "[WARN] One or more processed files missing. Skipping join tests.",
                   Null)>>
            /\ pcEtl' = "summary"
            /\ UNCHANGED etl_failure
       ELSE IF ~(ProcessedFiles \subseteq processed)
       THEN \* pd.read_csv of a path that does not exist
            /\ etl_failure' = Exception("FileNotFoundError",
                                  "No such file or directory",
                                  ProcessedFiles \ processed)
            /\ pcEtl' = "failed"
            /\ UNCHANGED join_log
       ELSE LET j1 == j1_of(ipeds_csv, eada_csv)
                j2 == j2_of(ipeds_csv, fcc_csv)
                j3 == j3_of(j1, fcc_csv)
            IN  /\ join_log' =
                     <<Printed("EADA match rate (rows with athletics data):",
                          Format3(NotnaMeanIds(Column(j1, "school_name_eada")))),
                       Printed("FCC coverage match rate (by state):",
                          Format3(NotnaMeanVals(Column(j2, "coverage_mobile_score")))),
                       Printed("Unified FCC match rate:",
                          Format3(NotnaMeanVals(Column(j3, "coverage_mobile_score"))))>>
                /\ pcEtl' = "summary"
                /\ UNCHANGED etl_failure
    /\ UNCHANGED <<processed, ipeds_csv, eada_csv, fcc_csv>>
    /\ UNCHANGED <<raw_ipeds, urban_api, download_failure, pcDownload>>
    /\ UNCHANGED <<cleanVars, moneyVars, dedupeVars, dashVars, instVars,
                   extractVars>>

\* main(), after test_joins() has returned: the final summary
Summary ==
    /\ pcEtl = "summary"
    /\ join_log' = Append(join_log, Printed("=== SUMMARY ===", Null))
    /\ pcEtl' = "done"
    /\ UNCHANGED <<processed, ipeds_csv, eada_csv, fcc_csv, etl_failure>>
    /\ UNCHANGED <<raw_ipeds, urban_api, download_failure, pcDownload>>
    /\ UNCHANGED <<cleanVars, moneyVars, dedupeVars, dashVars, instVars,
                   extractVars>>

NextEtl == TestJoins \/ Summary

SpecEtl == InitEtl /\ [][NextEtl]_vars

(***************************************************************************)
(* Claims about the join validation                                        *)
(***************************************************************************)
SecondaryMissing == "eada" \notin processed \/ "fcc" \notin processed

\* C19: when the athletics or the coverage table is missing, the validator
\* raises nothing: it prints its skip warning, prints no rate, and returns,
\* and main goes on to its summary.
C19_SkipOnMissingTable ==
    SecondaryMissing /\ pcEtl # "join validation" =>
        /\ etl_failure = NoFailure
        /\ pcEtl \in {"summary", "done"}
        /\ join_log[1] = Printed(
              "[WARN] One or more processed files missing. Skipping join tests.",
              Null)
        /\ \A i \in 1..Len(join_log) : join_log[i].value = Null

\* main printed its summary after the validator skipped for a missing
\* athletics table
C19_Witness ==
    /\ pcEtl = "done"
    /\ "ipeds" \in processed /\ "eada" \notin processed
    /\ Len(join_log) = 2
    /\ join_log[2].line = "=== SUMMARY ==="

\* the share of institution rows with at least one partner row
ShareMatched(col, secondary) ==
    Div(Int2Num(Cardinality({i \in 1..Len(ipeds_csv) :
            \E r \in Range(secondary) : r[col] = ipeds_csv[i][col]})),
        Int2Num(Len(ipeds_csv)))

\* C20: for the athletics table and for the coverage table the printed
\* match rate is (institution rows with at least one matching row) over
\* (institution rows), also when the secondary table has several rows for
\* one unitid or one state.
C20_MatchRate ==
    pcEtl \in {"summary", "done"} /\ AllExist(processed) /\ ipeds_csv # <<>> =>
        /\ join_log[1].value = Format3(ShareMatched("unitid", eada_csv))
        /\ join_log[2].value = Format3(ShareMatched("state_abbr", fcc_csv))

OptionalColumns == {"stars", "verified", "verified_flag"}

\* C21: a deals file without a 'stars' column gives every institution a stars
\* sum and a stars-weighted total of 0, and a null stars value counts as 0
\* (the stars sum is always a number); a file with neither 'verified' nor
\* 'verified_flag' gives every institution a verified count of 0; and a run
\* on a file without the optional columns fails only for a reason that has
\* nothing to do with them (an identity or amount column is missing, or no
\* team name was accepted).
C21_OptionalColumnsDefault ==
    /\ pcInst = "done" =>
          \A i \in DOMAIN inst_nil :
             /\ inst_nil[i].nil_stars_sum.kind = "num"
             /\ "stars" \notin nil_columns =>
                   /\ inst_nil[i].nil_stars_sum = Int2Num(0)
                   /\ inst_nil[i].nil_stars_weighted_total = Int2Num(0)
                   /\ inst_nil[i].nil_dollars_per_star = Int2Num(0)
             /\ nil_columns \cap {"verified", "verified_flag"} = {} =>
                   inst_nil[i].nil_verified_count = 0
    /\ pcInst = "failed" /\ nil_columns \cap OptionalColumns = {} =>
          \/ NoNameColumn \/ NoTeamColumn \/ "deal_amount" \notin nil_columns
          \/ \A t \in DOMAIN wratio : ~HasStrongMatch(t)

\* a finished run on a file without the optional columns whose deals carry
\* four stars and a verified mark in the rows
C21_Witness ==
    /\ pcInst = "done"
    /\ nil_columns \cap OptionalColumns = {}
    /\ inst_nil # <<>>
    /\ \E r \in Range(AcceptedDeals) : r.stars = Int2Num(4) /\ r.verified = "True"

\* C22: the saved athlete table is in descending order of deal_value, and
\* every row without a deal_value comes after every row that has one.
C22_SortedByValue ==
    pcDedupe = "saved" =>
        \A i, j \in DOMAIN final_df :
            i < j =>
               /\ final_df[j].deal_value.kind \notin {"null", "nan"} =>
                     final_df[i].deal_value.kind \notin {"null", "nan"}
               /\ final_df[i].deal_value.kind = "num"
                  /\ final_df[j].deal_value.kind = "num" =>
                     final_df[i].deal_value.n * final_df[j].deal_value.d
                        >= final_df[j].deal_value.n * final_df[i].deal_value.d

\* a saved table whose group order was turned round by the sort, and one
\* whose row without a value was moved behind a row with one
C22_Witness ==
    /\ pcDedupe = "saved"
    /\ Len(final_df) = 2
    /\ final_df # athlete_fact
    /\ final_df[1].deal_value.kind = "num"
    /\ \/ final_df[2].deal_value.kind = "null"
       \/ final_df[2].deal_value.kind = "num"
          /\ final_df[2].deal_value.n < final_df[1].deal_value.n

\* C24: the match recorded for a team name is the registry entry with the
\* highest score over the whole registry; when several entries share that
\* score it is the one that comes first in the registry, and the recorded
\* unitid (in the QA table and in the mapping) is the unitid of that row.
C24_BestMatchFirstOnTies ==
    pcInst \in {"mapping saved", "done"} =>
        \A k \in DOMAIN mapping_df :
            LET rec == mapping_df[k]
                sc  == wratio[rec.team_name_clean]
            IN  /\ \A i \in DOMAIN sc : sc[i] <= rec.match_score
                /\ \E i \in DOMAIN sc :
                      /\ sc[i] = rec.match_score
                      /\ \A j \in DOMAIN sc : j < i => sc[j] < sc[i]
                      /\ rec.unitid = ipeds[i].unitid
                      /\ rec.iped_school_original = ipeds[i].name
                      /\ mapping[rec.team_name_clean] = ipeds[i].unitid

\* a saved mapping for a name whose best score is shared by two registry
\* rows with different unitids
C24_Witness ==
    /\ pcInst = "mapping saved"
    /\ \E k \in DOMAIN mapping_df :
          LET sc == wratio[mapping_df[k].team_name_clean]
          IN  /\ Len(sc) = 2 /\ sc[1] = sc[2] /\ sc[1] = mapping_df[k].match_score
              /\ ipeds[1].unitid # ipeds[2].unitid
              /\ mapping_df[k].unitid = ipeds[1].unitid

DescriptiveFields ==
    {"sport_name", "player_state", "player_position", "player_class_year"}

\* the rows of the input that were aggregated into the fact f, by position
RowsOfFact(f) ==
    {i \in DOMAIN df :
        /\ df[i].player_key = f.player_key
        /\ df[i].player_name = f.player_name
        /\ df[i].team_committed = f.team_committed}

\* C25: every descriptive field of a saved athlete fact (sport_name,
\* player_state, player_position, player_class_year) is the first non-null
\* value of that field among the rows of the fact's group, in input order,
\* and it is null only when the field is null in every row of the group.
C25_FirstNonNullDescriptor ==
    pcDedupe = "saved" =>
        \A k \in DOMAIN final_df : \A c \in DescriptiveFields :
            LET f  == final_df[k]
                nn == {i \in RowsOfFact(f) : df[i][c] # NULL}
            IN  /\ RowsOfFact(f) # {}
                /\ nn = {} => f[c] = NULL
                /\ nn # {} =>
                      \E i \in nn : /\ f[c] = df[i][c]
                                    /\ \A j \in nn : i <= j

\* a saved fact whose group starts with a row without a sport and has a
\* later row with one, and a saved fact whose group has two different sports
C25_Witness ==
    /\ pcDedupe = "saved"
    /\ Len(final_df) = 1
    /\ RowsOfFact(final_df[1]) = {1, 2}
    /\ \/ df[1].sport_name = NULL /\ final_df[1].sport_name = "S1"
       \/ df[1].sport_name = "S2" /\ df[2].sport_name = "S1"
          /\ final_df[1].sport_name = "S2"

\* C27: the deduplication loses no valid athlete: every raw row with a
\* non-null player_key and team_committed was aggregated into exactly one
\* saved athlete fact, and so every (player_key, team_committed) pair of such
\* rows appears in the saved table, also when the row's player_name is null.
C27_NoAthleteLost ==
    pcDedupe = "saved" =>
        \A i \in DOMAIN df :
            df[i].player_key # NULL /\ df[i].team_committed # NULL =>
                /\ Cardinality({k \in DOMAIN final_df :
                                   i \in RowsOfFact(final_df[k])}) = 1
                /\ \E k \in DOMAIN final_df :
                      /\ final_df[k].player_key = df[i].player_key
                      /\ final_df[k].team_committed = df[i].team_committed

\* the deals of the file that got a unitid, and the exact quotient a / b
MappedDeals == mapped_of(nil, mapping)
IsQuotient(q, a, b) == q.kind = "num" /\ q.n * a.d * b.n = a.n * q.d * b.d

\* C29: nil_dollars_per_star is always a number: it is 0 when the
\* institution's stars sum is 0, and otherwise the stars-weighted total
\* divided by the stars sum; and the finished table has exactly one row for
\* every unitid that has at least one mapped deal, and no other row.
C29_DollarsPerStar ==
    pcInst = "done" =>
        /\ \A i \in DOMAIN inst_nil :
              LET row == inst_nil[i]
              IN  /\ row.nil_dollars_per_star.kind = "num"
                  /\ row.nil_stars_sum.n = 0 =>
                        row.nil_dollars_per_star.n = 0
                  /\ row.nil_stars_sum.n # 0 =>
                        IsQuotient(row.nil_dollars_per_star,
                                   row.nil_stars_weighted_total, row.nil_stars_sum)
        /\ {inst_nil[i].unitid : i \in DOMAIN inst_nil}
              = {r.unitid : r \in Range(MappedDeals)}
        /\ \A i, j \in DOMAIN inst_nil :
              inst_nil[i].unitid = inst_nil[j].unitid => i = j

\* a finished table with an institution whose deals have no stars at all
\* next to one with 400 dollars-times-stars over 4 stars
C29_Witness ==
    /\ pcInst = "done"
    /\ Len(inst_nil) = 2
    /\ \E i, j \in DOMAIN inst_nil :
          /\ inst_nil[i].nil_stars_sum = Int2Num(0)
          /\ inst_nil[i].nil_dollars_per_star = Int2Num(0)
          /\ NumEquals(inst_nil[j].nil_stars_sum, 4)
          /\ NumEquals(inst_nil[j].nil_dollars_per_star, 100)

\* the number of rows of the filtered view with the key k in the columns cols
RowCount(cols, k) ==
    Cardinality({i \in DOMAIN filtered_df :
        \A j \in 1..Len(cols) : filtered_df[i][cols[j]] = k[j]})

\* ranking is a volume ranking of the filtered view by the columns cols: its
\* counts are row counts, it is in descending order of count with equal
\* counts in ascending key order, and it leaves out at most the groups beyond
\* the tenth, none of them larger than a group it shows
IsVolumeRanking(ranking, cols, count) ==
    LET key(row) == [j \in 1..Len(cols) |-> row[cols[j]]]
        all == {[j \in 1..Len(cols) |-> r[cols[j]]] : r \in
                  {x \in Range(filtered_df) :
                      \A j \in 1..Len(cols) : x[cols[j]] # NULL}}
        shown == {key(ranking[i]) : i \in DOMAIN ranking}
    IN  /\ \A i \in DOMAIN ranking :
              ranking[i][count] = RowCount(cols, key(ranking[i]))
        /\ \A i, j \in DOMAIN ranking :
              i < j =>
                 \/ ranking[i][count] > ranking[j][count]
                 \/ /\ ranking[i][count] = ranking[j][count]
                    /\ KeyLess(key(ranking[i]), key(ranking[j]))
        /\ shown \subseteq all
        /\ Len(ranking) = (IF Cardinality(all) < 10 THEN Cardinality(all) ELSE 10)
        /\ \A k \in all \ shown : \A s \in shown :
              RowCount(cols, k) <= RowCount(cols, s)

\* C26: the three volume rankings (schools, brands, athletes) of a run are
\* computed from the deal rows of the filtered view, whatever their amounts:
\* each ranks its groups by row count, largest first, shows at most 10 groups
\* and none smaller than a group it leaves out, and puts groups of equal
\* count in the natural order of their key.
C26_VolumeRankings ==
    branch \in {"warning", "table"} =>
        /\ IsVolumeRanking(school_summary, <<"team_committed">>, "deals")
        /\ IsVolumeRanking(brand_volume, <<"company_name">>, "deal_count")
        /\ IsVolumeRanking(athlete_volume, <<"player_key", "player_name">>,
                           "deal_count")

\* C28: the KPI "Deals with Disclosed Values" of a run is a number between
\* 0 and 1 for every filtered view, also for a view in which one deal_key
\* stands on several rows.
C28_ShareReportedInUnitInterval ==
    branch \in {"warning", "table"} =>
        /\ share_reported.kind = "num"
        /\ 0 <= share_reported.n
        /\ share_reported.n <= share_reported.d

(***************************************************************************)
(* etl.py: download_ipeds_directory, and the stages run a second time      *)
(***************************************************************************)
\* one page of the API's answer: the status code and the "results" rows
Page(status, results) == [status |-> status, results |-> results]

\* fetch_urban_endpoint: the rows of all pages, or RuntimeError at the first
\* page whose status is not 200
fetch_urban_endpoint(pages) ==
    IF \E i \in DOMAIN pages : pages[i].status # 200
    THEN [failure |-> Exception("RuntimeError", "Urban API error",
                        {pages[SetMin({i \in DOMAIN pages :
                                          pages[i].status # 200})].status}),
          rows |-> <<>>]
    ELSE [failure |-> NoFailure,
          rows |-> Flatten([i \in DOMAIN pages |-> pages[i].results])]

\* the download that asks the API whether or not the file is there
download_ipeds_directory_afresh(file, pages) ==
    LET got == fetch_urban_endpoint(pages)
    IN  IF got.failure # NoFailure THEN [file |-> file, failure |-> got.failure]
        ELSE [file |-> File(got.rows), failure |-> NoFailure]

\* lines 73-86: a file that is there is returned as it is; otherwise the
\* directory is fetched and saved
download_ipeds_directory(file, pages) ==
    IF file.exists THEN [file |-> file, failure |-> NoFailure]
    ELSE LET got == fetch_urban_endpoint(pages)
         IN  IF got.failure # NoFailure
             THEN [file |-> file, failure |-> got.failure]
             ELSE [file |-> File(got.rows), failure |-> NoFailure]

DirectoryRow(u) == [unitid |-> u, inst_name |-> "A"]

\* what the API may answer to a call: one page, two pages, an error on the
\* first or on the second page, no row at all
UrbanAnswers ==
    {<<Page(200, <<DirectoryRow(100)>>)>>,
     <<Page(200, <<DirectoryRow(100)>>), Page(200, <<DirectoryRow(200)>>)>>,
     <<Page(500, <<>>)>>,
     <<Page(200, <<DirectoryRow(100)>>), Page(500, <<>>)>>,
     <<Page(200, <<>>)>>}

InitDownload ==
    /\ IdleClean /\ IdleMoney /\ IdleDedupe /\ IdleDash /\ IdleInst /\ IdleJoin
    /\ IdleExtract
    /\ raw_ipeds \in {NoFile, File(<<DirectoryRow(200)>>)}
    /\ urban_api = <<>>
    /\ download_failure = NoFailure
    /\ pcDownload = "call 1"

\* one call of download_ipeds_directory while the API answers with pages;
\* the step is called twice
DownloadIpedsDirectory(pages) ==
    /\ pcDownload \in {"call 1", "call 2"}
    /\ urban_api' = pages
    /\ raw_ipeds' = download_ipeds_directory(raw_ipeds, pages).file
    /\ download_failure' = download_ipeds_directory(raw_ipeds, pages).failure
    /\ pcDownload' = IF pcDownload = "call 1" THEN "call 2" ELSE "called twice"
    /\ UNCHANGED <<processed, ipeds_csv, eada_csv, fcc_csv, join_log,
                   etl_failure, pcEtl>>
    /\ UNCHANGED <<cleanVars, moneyVars, dedupeVars, dashVars, instVars,
                   extractVars>>

NextDownload == \E pages \in UrbanAnswers : DownloadIpedsDirectory(pages)

\* a stage and its second run on the same inputs: the deduplication, the
\* institution build, or the download step
\* the second run of the deduplication is followed on the files whose rows
\* report one deal or none; two athletes with equal values still occur
OneDeal(t) == \A i \in DOMAIN t : t[i].deal_key # "K2"
InitRerun ==
    \/ InitDedupe /\ OneDeal(df)
    \/ InitInst /\ nil \in SampleDeals
    \/ InitDownload
NextRerun == NextDedupe \/ NextInst \/ NextDownload
SpecRerun == InitRerun /\ [][NextRerun]_vars

MaxPages == 3

\* a deal of the API's JSON: its key, its valuation, and the nested person
\* object (absent or present)
JsonDeal(p, i) ==
    [key |-> <<p, i>>, nilValue |-> Int2Num(100),
     person |-> <<[key |-> "P1", fullName |-> "A"]>>]
JsonDealNoPerson(p, i) ==
    [key |-> <<p, i>>, nilValue |-> Null, person |-> <<>>]

\* lines 48-130: a missing nested object gives missing columns
flatten_deal(d) ==
    LET person == IF d.person = <<>> THEN [key |-> NULL, fullName |-> NULL]
                  ELSE d.person[1]
    IN  [deal_key |-> d.key, deal_amount |-> d.nilValue,
         player_key |-> person.key, player_name |-> person.fullName]

flatten_all(list) == [i \in 1..Len(list) |-> flatten_deal(list[i])]

\* what a request for a page gives: an HTTP error, or the page's JSON with
\* its list of deals and, when has_count, pagination.pageCount
HttpError == [ok |-> FALSE, has_count |-> FALSE, pageCount |-> 0, list |-> <<>>]
Json(has_count, pageCount, list) ==
    [ok |-> TRUE, has_count |-> has_count, pageCount |-> pageCount, list |-> list]

PageLists(p) ==
    {<<>>, <<JsonDeal(p, 1)>>, <<JsonDeal(p, 1), JsonDealNoPerson(p, 2)>>}

Answers(p) ==
    IF p = 1
    THEN {HttpError}
         \cup {Json(TRUE, n, l) : n \in 0..MaxPages, l \in PageLists(1)}
         \cup {Json(FALSE, 0, l) : l \in PageLists(1)}
    ELSE {HttpError} \cup {Json(FALSE, 0, l) : l \in PageLists(p)}

Apis ==
    UNION {{api \in [1..n -> UNION {Answers(p) : p \in 1..n}] :
               \A p \in 1..n : api[p] \in Answers(p)} : n \in 1..MaxPages}

\* lines 39-45: a page the API does not have is an HTTP error too
fetch_page(api, p) == IF p \in DOMAIN api THEN api[p] ELSE HttpError

Event(type, p) == [type |-> type, page |-> p]

OldDealsFile == File(<<flatten_deal(JsonDeal(0, 1))>>)

InitExtract ==
    /\ IdleClean /\ IdleMoney /\ IdleDedupe /\ IdleDash /\ IdleInst /\ IdleEtl
    /\ on3_api \in Apis
    /\ events = <<>>
    /\ page_count = 0
    /\ page = 0
    /\ all_rows = <<>>
    /\ deals_csv \in {NoFile, OldDealsFile}
    /\ extract_failure = NoFailure
    /\ pcExtract = "start"

\* an exception that nothing catches ends main
Abort(kind, message) ==
    /\ extract_failure' = Exception(kind, message, {})
    /\ pcExtract' = "aborted"

\* lines 143-165: the first page, its metadata and its deals (page_count -1
\* stands for None)
FetchFirst ==
    /\ pcExtract = "start"
    /\ events' = <<Event("request", 1)>>
    /\ LET first == fetch_page(on3_api, 1)
       IN  IF ~first.ok
           THEN /\ Abort("HTTPError", "raise_for_status")
                /\ UNCHANGED <<page_count, page, all_rows>>
           ELSE /\ page_count' = IF first.has_count THEN first.pageCount ELSE -1
                /\ IF first.list = <<>>
                   THEN /\ Abort("IndexError", "list index out of range")
                        /\ UNCHANGED <<page, all_rows>>
                   ELSE /\ all_rows' = flatten_all(first.list)
                        /\ IF ~first.has_count
                           THEN /\ Abort("TypeError",
                                     "unsupported operand type(s) for +: 'NoneType' and 'int'")
                                /\ UNCHANGED page
                           ELSE /\ page' = 2
                                /\ pcExtract' = "loop"
                                /\ UNCHANGED extract_failure
    /\ UNCHANGED <<on3_api, deals_csv>>
    /\ UNCHANGED <<cleanVars, moneyVars, dedupeVars, dashVars, instVars, etlVars>>

\* line 171: time.sleep(SLEEP) at the start of every turn of the loop
Sleep ==
    /\ pcExtract = "loop"
    /\ page <= page_count
    /\ events' = Append(events, Event("sleep", page))
    /\ pcExtract' = "request"
    /\ UNCHANGED <<on3_api, page_count, page, all_rows, deals_csv, extract_failure>>
    /\ UNCHANGED <<cleanVars, moneyVars, dedupeVars, dashVars, instVars, etlVars>>

\* the turn of the loop without try/except: a failed page ends the run
handle_page_uncaught(data, rows) ==
    IF data.ok
    THEN [all_rows |-> rows \o flatten_all(data.list), warned |-> FALSE,
          pc |-> "loop", failure |-> NoFailure]
    ELSE [all_rows |-> rows, warned |-> FALSE, pc |-> "aborted",
          failure |-> Exception("HTTPError", "raise_for_status", {})]

\* lines 172-177: the deals of a fetched page are appended; a failure is
\* printed as a warning and the loop goes on
handle_page(data, rows) ==
    IF data.ok
    THEN [all_rows |-> rows \o flatten_all(data.list), warned |-> FALSE,
          pc |-> "loop", failure |-> NoFailure]
    ELSE [all_rows |-> rows, warned |-> TRUE, pc |-> "loop",
          failure |-> NoFailure]

FetchPage ==
    /\ pcExtract = "request"
    /\ LET h == handle_page(fetch_page(on3_api, page), all_rows)
       IN  /\ events' = events \o <<Event("request", page)>>
                          \o (IF h.warned THEN <<Event("warn", page)>> ELSE <<>>)
           /\ all_rows' = h.all_rows
           /\ pcExtract' = h.pc
           /\ extract_failure' = h.failure
    /\ page' = page + 1
    /\ UNCHANGED <<on3_api, page_count, deals_csv>>
    /\ UNCHANGED <<cleanVars, moneyVars, dedupeVars, dashVars, instVars, etlVars>>

\* lines 182-194: after the last page the rows are saved
Save ==
    /\ pcExtract = "loop"
    /\ page > page_count
    /\ deals_csv' = File(all_rows)
    /\ pcExtract' = "saved"
    /\ UNCHANGED <<on3_api, events, page_count, page, all_rows, extract_failure>>
    /\ UNCHANGED <<cleanVars, moneyVars, dedupeVars, dashVars, instVars, etlVars>>

NextExtract == FetchFirst \/ Sleep \/ FetchPage \/ Save

SpecExtract == InitExtract /\ [][NextExtract]_vars

\* the pages requested so far, in the order of the requests
Requested ==
    LET reqs == Select(events, {e \in Range(events) : e.type = "request"})
    IN  [i \in 1..Len(reqs) |-> reqs[i].page]

\* the flattened deals of the pages 1..n that the API answers, in page order
RECURSIVE RowsOfPages(_)
RowsOfPages(n) ==
    IF n = 0 THEN <<>>
    ELSE RowsOfPages(n - 1)
            \o (IF fetch_page(on3_api, n).ok
                THEN flatten_all(fetch_page(on3_api, n).list) ELSE <<>>)

\* C30: the pages are requested one after the other, page 1 first and then
\* 2, 3, ... up to pageCount, each once, and every request after the first
\* comes right after a delay; a page after the first that cannot be fetched
\* gets a warning and the run goes on (a run is aborted only while it has
\* requested page 1 alone); the saved file holds the flattened deals of
\* exactly the pages that were fetched, in page order, once all pages up to
\* pageCount were requested; and when page 1 cannot be fetched the run is
\* aborted after that one request, and until a run saves, the deals file is
\* as it was.
C30_SerialExtraction ==
    /\ \A i \in DOMAIN Requested : Requested[i] = i
    /\ pcExtract \in {"loop", "request", "saved"} =>
          Len(Requested) <= (IF page_count < 1 THEN 1 ELSE page_count)
    /\ \A k \in DOMAIN events :
          events[k].type = "request" /\ events[k].page > 1 =>
             /\ k > 1 /\ events[k - 1] = Event("sleep", events[k].page)
             /\ ~fetch_page(on3_api, events[k].page).ok =>
                   /\ k < Len(events)
                   /\ events[k + 1] = Event("warn", events[k].page)
    /\ pcExtract = "aborted" => Len(Requested) = 1
    /\ pcExtract = "saved" =>
          /\ Len(Requested) = (IF page_count < 1 THEN 1 ELSE page_count)
          /\ deals_csv = File(RowsOfPages(Len(Requested)))
    /\ pcExtract # "start" /\ ~fetch_page(on3_api, 1).ok =>
          pcExtract = "aborted" /\ events = <<Event("request", 1)>>
    /\ pcExtract # "saved" => deals_csv \in {NoFile, OldDealsFile}

\* a run that saved three pages' worth of requests although page 2 could not
\* be fetched: the file holds the deals of pages 1 and 3
C30_Witness ==
    /\ pcExtract = "saved"
    /\ Requested = <<1, 2, 3>>
    /\ ~fetch_page(on3_api, 2).ok
    /\ fetch_page(on3_api, 3).ok /\ fetch_page(on3_api, 3).list # <<>>
    /\ Event("warn", 2) \in Range(events)
    /\ Len(deals_csv.rows) >= 2

====
